---------------------------- MODULE Spec2Model ----------------------------
(***************************************************************************)
(* Terraform validation tools (src/Terraform/validation-tools):            *)
(*   comprehensive_validator.py     the orchestrator                       *)
(*   terraform_module_validator.py  structure / syntax / usage checks      *)
(*   output_verifier.py             output reference verifier              *)
(*   variable_validation_tester.py  variable validation simulator          *)
(* Texts are TLA+ strings; a character is a string of length one.  The     *)
(* regular expressions of the source are kept as syntax trees and matched  *)
(* with the backtracking order of Python's re module.                      *)
(***************************************************************************)
EXTENDS Integers, Sequences, FiniteSets, TLC

---------------------------------------------------------------------------
(* Characters and Python's str methods                                     *)

Lower == {"a","b","c","d","e","f","g","h","i","j","k","l","m",
          "n","o","p","q","r","s","t","u","v","w","x","y","z"}

Upper == {"A","B","C","D","E","F","G","H","I","J","K","L","M",
          "N","O","P","Q","R","S","T","U","V","W","X","Y","Z"}

Digit == {"0","1","2","3","4","5","6","7","8","9"}

HexLower == {"a","b","c","d","e","f"}

Space == {" ", "\t", "\n", "\r", "\f"}

Ch(s, i) == SubSeq(s, i, i)

\* s[i:] of Python, 1-based
From(s, i) == SubSeq(s, i, Len(s))

StartsWithAt(s, i, lit) ==
    /\ i + Len(lit) - 1 <= Len(s)
    /\ SubSeq(s, i, i + Len(lit) - 1) = lit

\* sub in s
Contains(s, sub) == \E t \in {s} : \E i \in 1..(Len(t) + 1) : StartsWithAt(t, i, sub)

Min(S) == CHOOSE x \in S : \A y \in S : x <= y

Max(S) == CHOOSE x \in S : \A y \in S : x >= y

\* s.find(sub, i): the first occurrence of sub at or after i, 0 if none
Find(s, sub, i) ==
    LET at == {k \in i..(Len(s) + 1) : StartsWithAt(s, k, sub)}
    IN  IF at = {} THEN 0 ELSE Min(at)

RECURSIVE CountFrom(_, _, _)
CountFrom(s, sub, i) ==
    LET k == Find(s, sub, i)
    IN  IF k = 0 THEN 0 ELSE 1 + CountFrom(s, sub, k + Len(sub))

\* s.count(sub), non-overlapping occurrences (sub is never empty here)
StrCount(s, sub) == CountFrom(s, sub, 1)

LowerChar(c) ==
    CASE c = "A" -> "a" [] c = "B" -> "b" [] c = "C" -> "c" [] c = "D" -> "d"
      [] c = "E" -> "e" [] c = "F" -> "f" [] c = "G" -> "g" [] c = "H" -> "h"
      [] c = "I" -> "i" [] c = "J" -> "j" [] c = "K" -> "k" [] c = "L" -> "l"
      [] c = "M" -> "m" [] c = "N" -> "n" [] c = "O" -> "o" [] c = "P" -> "p"
      [] c = "Q" -> "q" [] c = "R" -> "r" [] c = "S" -> "s" [] c = "T" -> "t"
      [] c = "U" -> "u" [] c = "V" -> "v" [] c = "W" -> "w" [] c = "X" -> "x"
      [] c = "Y" -> "y" [] c = "Z" -> "z" [] OTHER -> c

RECURSIVE StrLower(_)
\* s.lower(), by halves
StrLower(s) ==
    CHOOSE r \in {IF Len(t) <= 1 THEN LowerChar(t)
                  ELSE StrLower(SubSeq(t, 1, Len(t) \div 2))
                       \o StrLower(SubSeq(t, Len(t) \div 2 + 1, Len(t))) : t \in {s}} : TRUE

\* s.strip()
Strip(s) ==
    LET keep == {k \in 1..Len(s) : Ch(s, k) \notin Space}
    IN  IF keep = {} THEN "" ELSE SubSeq(s, Min(keep), Max(keep))

\* s.startswith(prefix)
StartsWith(s, prefix) == StartsWithAt(s, 1, prefix)

RECURSIVE SplitFrom(_, _, _)
SplitFrom(s, sep, start) ==
    LET k == Find(s, sep, start)
    IN  IF k = 0 THEN << SubSeq(s, start, Len(s)) >>
        ELSE << SubSeq(s, start, k - 1) >> \o SplitFrom(s, sep, k + Len(sep))

\* s.split(sep)
Split(s, sep) == SplitFrom(s, sep, 1)

\* s.isdigit() over ASCII text
IsDigit(s) == s # "" /\ \A i \in 1..Len(s) : Ch(s, i) \in Digit

DigitVal(c) ==
    CASE c = "0" -> 0 [] c = "1" -> 1 [] c = "2" -> 2 [] c = "3" -> 3
      [] c = "4" -> 4 [] c = "5" -> 5 [] c = "6" -> 6 [] c = "7" -> 7
      [] c = "8" -> 8 [] c = "9" -> 9

RECURSIVE ToInt(_)
\* int(s) for a string of ASCII digits
ToInt(s) ==
    IF s = "" THEN 0
    ELSE 10 * ToInt(SubSeq(s, 1, Len(s) - 1)) + DigitVal(Ch(s, Len(s)))

RECURSIVE DigitsOf(_)
DigitsOf(n) ==
    LET d == CHOOSE c \in Digit : DigitVal(c) = n % 10
    IN  IF n < 10 THEN d ELSE DigitsOf(n \div 10) \o d

\* str(n) / f"{n}" for a natural number
IntToStr(n) == DigitsOf(n)

---------------------------------------------------------------------------
(* Python's re: syntax trees and backtracking matching.                    *)
(* A node is  lit(text) | cls(set, negated) | rep(node, min, max) greedy,  *)
(* max = -1 unbounded | seq(nodes) | alt(nodes) | bos (^) | eos ($).       *)
(* A pattern is the sequence of its top-level nodes; every capture group   *)
(* of the source's patterns is one top-level node, so a match is the path  *)
(* of positions <<p1, ..., pn, end>> at which the top-level nodes start.   *)

Lit(t) == [op |-> "lit", s |-> t]
Cls(cs) == [op |-> "cls", cs |-> cs, neg |-> FALSE]
NotCls(cs) == [op |-> "cls", cs |-> cs, neg |-> TRUE]
Rep(r, lo, hi) == [op |-> "rep", r |-> r, min |-> lo, max |-> hi]
Star(r) == Rep(r, 0, -1)
Plus(r) == Rep(r, 1, -1)
SeqOf(rs) == [op |-> "seq", rs |-> rs]
Alt(rs) == [op |-> "alt", rs |-> rs]
Bos == [op |-> "bos"]
Eos == [op |-> "eos"]

RECURSIVE Ends(_, _, _)
RECURSIVE EndsRep(_, _, _, _)
RECURSIVE EndsRepOver(_, _, _, _, _, _)
RECURSIVE EndsSeq(_, _, _, _)
RECURSIVE EndsSeqOver(_, _, _, _, _)
RECURSIVE EndsAlt(_, _, _, _)
RECURSIVE EndsRepCls(_, _, _)

\* The positions at which a match of node r starting at i can end, in the
\* order in which the backtracking matcher tries them.
Ends(r, s, i) ==
    CASE r.op = "lit" -> IF StartsWithAt(s, i, r.s) THEN << i + Len(r.s) >> ELSE << >>
      [] r.op = "cls" -> IF i <= Len(s) /\ ((Ch(s, i) \in r.cs) # r.neg)
                         THEN << i + 1 >> ELSE << >>
      [] r.op = "rep" -> IF r.r.op = "cls" THEN EndsRepCls(r, s, i)
                         ELSE EndsRep(r, s, i, 0)
      [] r.op = "seq" -> EndsSeq(r.rs, 1, s, i)
      [] r.op = "alt" -> EndsAlt(r.rs, 1, s, i)
      [] r.op = "bos" -> IF i = 1 THEN << i >> ELSE << >>
      [] r.op = "eos" -> IF i = Len(s) + 1 \/ (i = Len(s) /\ Ch(s, i) = "\n")
                         THEN << i >> ELSE << >>

\* greedy repetition of a character class: the longest run first, then
\* one character less at a time (what EndsRep gives, without the recursion)
EndsRepCls(r, s, i) ==
    LET bad  == {k \in i..Len(s) : (Ch(s, k) \in r.r.cs) = r.r.neg}
        run  == IF bad = {} THEN Len(s) + 1 ELSE Min(bad)
        hi   == IF r.max # -1 /\ i + r.max < run THEN i + r.max ELSE run
        lo   == i + r.min
    IN  IF hi < lo THEN << >> ELSE [n \in 1..(hi - lo + 1) |-> hi - n + 1]

\* greedy repetition: one more iteration first, then stop
EndsRep(r, s, i, k) ==
    LET more == IF r.max = -1 \/ k < r.max
                THEN EndsRepOver(r, s, i, Ends(r.r, s, i), 1, k) ELSE << >>
        stop == IF k >= r.min THEN << i >> ELSE << >>
    IN  more \o stop

\* an iteration that consumes nothing is not repeated
EndsRepOver(r, s, i, js, n, k) ==
    IF n > Len(js) THEN << >>
    ELSE (IF js[n] > i THEN EndsRep(r, s, js[n], k + 1) ELSE << >>)
         \o EndsRepOver(r, s, i, js, n + 1, k)

EndsSeq(rs, k, s, i) ==
    IF k > Len(rs) THEN << i >>
    ELSE EndsSeqOver(rs, k, s, Ends(rs[k], s, i), 1)

EndsSeqOver(rs, k, s, js, n) ==
    IF n > Len(js) THEN << >>
    ELSE EndsSeq(rs, k + 1, s, js[n]) \o EndsSeqOver(rs, k, s, js, n + 1)

EndsAlt(rs, k, s, i) ==
    IF k > Len(rs) THEN << >>
    ELSE Ends(rs[k], s, i) \o EndsAlt(rs, k + 1, s, i)

RECURSIVE FirstPath(_, _, _, _)
RECURSIVE FirstPathOver(_, _, _, _, _, _)

\* The first match of the pattern's nodes k.. at position i, as the path of
\* the positions where each node starts followed by the end; << >> if none.
FirstPath(rs, k, s, i) ==
    IF k > Len(rs) THEN << i >>
    ELSE FirstPathOver(rs, k, s, i, Ends(rs[k], s, i), 1)

FirstPathOver(rs, k, s, i, js, n) ==
    IF n > Len(js) THEN << >>
    ELSE LET p == FirstPath(rs, k + 1, s, js[n])
         IN  IF p # << >> THEN << i >> \o p
             ELSE FirstPathOver(rs, k, s, i, js, n + 1)

\* re.match(pattern, s) is not None
ReMatch(rs, s) == FirstPath(rs, 1, s, 1) # << >>

\* the positions from i on at which the pattern matches
MatchStarts(rs, s, i) ==
    {k \in i..(Len(s) + 1) : Ends(rs[1], s, k) # << >> /\ FirstPath(rs, 1, s, k) # << >>}

\* the match at the first of the positions at
LeftmostPath(rs, s, at) == IF at = {} THEN << >> ELSE FirstPath(rs, 1, s, Min(at))

\* the leftmost match starting at or after i
SearchFrom(rs, s, i) == LeftmostPath(rs, s, MatchStarts(rs, s, i))

\* re.search(pattern, s): the path of the leftmost match, << >> for None
ReSearch(rs, s) == SearchFrom(rs, s, 1)

RECURSIVE FindAllFrom(_, _, _)
RECURSIVE FindAllAfter(_, _, _)

\* the search goes on at the end e of a match, one further after an empty match
NextStart(first, e) == IF e > first THEN e ELSE e + 1

\* the matches from i on
FindAllFrom(rs, s, i) == FindAllAfter(rs, s, SearchFrom(rs, s, i))

\* the match p and the matches after it
FindAllAfter(rs, s, p) ==
    IF p = << >> THEN << >>
    ELSE << p >> \o FindAllFrom(rs, s, NextStart(p[1], p[Len(p)]))

\* re.findall(pattern, s): the paths of the non-overlapping matches
ReFindAll(rs, s) == FindAllFrom(rs, s, 1)

\* the text matched by top-level node k of a match
Group(s, p, k) == SubSeq(s, p[k], p[k + 1] - 1)

\* the whole text of a match
Whole(s, p) == SubSeq(s, p[1], p[Len(p)] - 1)

---------------------------------------------------------------------------
(* The module directory and the findings                                   *)

VARIABLES
    tool,       \* the program that was started on the directory
    pc,         \* the position of that program
    dir,        \* the module directory: the files the tools read
    gen,        \* how the directory's files were written (for the properties)
    errors,     \* self.errors of the running checker
    warnings,   \* self.warnings
    info,       \* self.info
    exit_status, \* the process's exit status, -1 while it runs
    out,        \* what the program printed, as far as the model keeps it
    validations,  \* the simulator's dict of variables, as its items in order
    var_index,    \* the simulator's position in validations.items()
    total_tests,  \* the simulator's counters
    passed_tests,
    cidr_str,     \* the argument of a call of _validate_cidr
    cidr_ret,     \* what the call returned, None before it returns
    validation_results, \* the orchestrator's list of (description, success)
    script_index, \* the orchestrator's position in scripts
    child,        \* the orchestrator's child process: "none" or "running"
    report        \* validation_report.md, None while it is not written

tester_vars == << validations, var_index, total_tests, passed_tests >>
cidr_vars == << cidr_str, cidr_ret >>
orchestrator_vars == << validation_results, script_index, child, report >>
checker_vars == << errors, warnings, info >>

\* An optional value: << >> is Python's None, << v >> is the value v.
None == << >>
Some(v) == << v >>
IsSome(o) == o # << >>
Val(o) == o[1]

\* Path.exists() of a file of the directory; read() gives Val(dir[f])
Exists(d, f) == IsSome(d[f])

---------------------------------------------------------------------------
(* output_verifier.py                                                      *)

WS == Cls(Space)
Quote == Lit("\"")
NotQuote == NotCls({"\""})

\* r'resource\s+"([^"]+)"\s+"([^"]+)"\s*{'   groups: nodes 4 and 8
resource_pattern ==
    << Lit("resource"), Plus(WS), Quote, Plus(NotQuote), Quote, Plus(WS),
       Quote, Plus(NotQuote), Quote, Star(WS), Lit("{") >>

\* r'data\s+"([^"]+)"\s+"([^"]+)"\s*{'   groups: nodes 4 and 8
data_pattern ==
    << Lit("data"), Plus(WS), Quote, Plus(NotQuote), Quote, Plus(WS),
       Quote, Plus(NotQuote), Quote, Star(WS), Lit("{") >>

\* r'output\s+"([^"]+)"\s*{([^}]+(?:{[^}]*}[^}]*)*)}'   groups: nodes 4 and 8
output_pattern ==
    << Lit("output"), Plus(WS), Quote, Plus(NotQuote), Quote, Star(WS), Lit("{"),
       SeqOf(<< Plus(NotCls({"}"})),
                Star(SeqOf(<< Lit("{"), Star(NotCls({"}"})), Lit("}"),
                              Star(NotCls({"}"})) >>)) >>),
       Lit("}") >>

\* r'description\s*=\s*"([^"]+)"'   group: node 6
description_pattern ==
    << Lit("description"), Star(WS), Lit("="), Star(WS), Quote, Plus(NotQuote), Quote >>

\* r'value\s*=\s*([^\n]+)'   group: node 5
value_pattern ==
    << Lit("value"), Star(WS), Lit("="), Star(WS), Plus(NotCls({"\n"})) >>

\* r'sensitive\s*=\s*(true|false)'   group: node 5
sensitive_pattern ==
    << Lit("sensitive"), Star(WS), Lit("="), Star(WS),
       Alt(<< Lit("true"), Lit("false") >>) >>

NameChars == Plus(Cls(Lower \cup {"_"}))

\* the six patterns of _verify_value_references, in the order of the list
ref_patterns ==
    << << Lit("aws_"), NameChars, Lit("."), NameChars >>,
       << Lit("azurerm_"), NameChars, Lit("."), NameChars >>,
       << Lit("google_"), NameChars, Lit("."), NameChars >>,
       << Lit("data."), NameChars, Lit("."), NameChars >>,
       << Lit("local."), NameChars >>,
       << Lit("var."), NameChars >> >>

ResourcesOf(content, ms) == [k \in 1..Len(ms) |-> << Group(content, ms[k], 4), Group(content, ms[k], 8) >>]

\* load_resources: (resources, data_sources) as sequences of <<type, name>>
load_resources(d) ==
    IF ~Exists(d, "main") THEN [resources |-> << >>, data_sources |-> << >>]
    ELSE LET content == Val(d["main"])
         IN  [resources    |-> ResourcesOf(content, ReFindAll(resource_pattern, content)),
              data_sources |-> ResourcesOf(content, ReFindAll(data_pattern, content))]

\* m.group(k) if m else None
GroupOrNone(content, m, k) == IF m = << >> THEN None ELSE Some(Group(content, m, k))

\* m.group(k).strip() if m else None
StripGroupOrNone(content, m, k) ==
    IF m = << >> THEN None ELSE Some(Strip(Group(content, m, k)))

\* m.group(k) == 'true' if m else False
TrueGroupOrFalse(content, m, k) == IF m = << >> THEN FALSE ELSE Group(content, m, k) = "true"

extract_description(content) ==
    GroupOrNone(content, ReSearch(description_pattern, content), 6)

extract_value(content) == StripGroupOrNone(content, ReSearch(value_pattern, content), 5)

extract_sensitive(content) ==
    TrueGroupOrFalse(content, ReSearch(sensitive_pattern, content), 5)

\* d[key] = entry of a Python dict kept as the sequence of its items in
\* insertion order: a key already present keeps its place
DictPut(items, entry) ==
    IF \E k \in 1..Len(items) : items[k].name = entry.name
    THEN [k \in 1..Len(items) |-> IF items[k].name = entry.name THEN entry ELSE items[k]]
    ELSE Append(items, entry)

RECURSIVE OutputDetails(_, _, _)
OutputDetails(content, ms, k) ==
    IF k = 0 THEN << >>
    ELSE LET output_content == Group(content, ms[k], 8)
         IN  DictPut(OutputDetails(content, ms, k - 1),
                     [name        |-> Group(content, ms[k], 4),
                      description |-> extract_description(output_content),
                      value       |-> extract_value(output_content),
                      sensitive   |-> extract_sensitive(output_content)])

AllOutputDetails(content, ms) == OutputDetails(content, ms, Len(ms))

\* load_outputs: the dict output name -> details, as its items in order
load_outputs(d) ==
    IF ~Exists(d, "outputs") THEN << >>
    ELSE AllOutputDetails(Val(d["outputs"]),
                          ReFindAll(output_pattern, Val(d["outputs"])))

\* the set available_refs built by verify_output_references
AvailableRefs(loaded) ==
    {loaded.resources[k][1] \o "." \o loaded.resources[k][2] :
        k \in 1..Len(loaded.resources)}
    \cup
    {"data." \o loaded.data_sources[k][1] \o "." \o loaded.data_sources[k][2] :
        k \in 1..Len(loaded.data_sources)}

\* the texts of the matches ms
Wholes(value, ms) == {Whole(value, ms[k]) : k \in 1..Len(ms)}

\* found_refs: the set of every match of every pattern in the value
FoundRefs(value) ==
    UNION { Wholes(value, ReFindAll(ref_patterns[n], value)) : n \in 1..Len(ref_patterns) }

\* Python truth of an optional string: neither None nor empty
Truthy(o) == IsSome(o) /\ Val(o) # ""

\* the orders in which a Python set of strings may be iterated
Orderings(S) ==
    {f \in [1..Cardinality(S) -> S] : \A a, b \in 1..Cardinality(S) : a # b => f[a] # f[b]}

\* the classification of one found reference
IsVarOrLocal(ref) == StartsWith(ref, "var.") \/ StartsWith(ref, "local.")

RECURSIVE verify_value_references(_, _, _, _, _)
\* _verify_value_references, with the references taken in the order refs
verify_value_references(acc, output_name, refs, k, available_refs) ==
    IF k > Len(refs) THEN acc
    ELSE LET ref == refs[k]
             nxt == IF IsVarOrLocal(ref) THEN acc
                    ELSE IF ref \in available_refs
                    THEN [acc EXCEPT !.info = Append(@,
                            [msg |-> "references valid resource",
                             output |-> output_name, ref |-> ref])]
                    ELSE [acc EXCEPT !.errors = Append(@,
                            [msg |-> "references invalid resource",
                             output |-> output_name, ref |-> ref])]
         IN  verify_value_references(nxt, output_name, refs, k + 1, available_refs)

\* the description check of the loop body of verify_output_references
CheckDescription(acc, o) ==
    IF Truthy(o.description)
    THEN [acc EXCEPT !.info = Append(@, [msg |-> "has description", output |-> o.name])]
    ELSE [acc EXCEPT !.warnings = Append(@, [msg |-> "missing description", output |-> o.name])]

\* CheckValue with a missing value recorded as a warning
CheckValue_MissingAsWarning(acc, o, available_refs) ==
    IF Truthy(o.value)
    THEN LET has == [acc EXCEPT !.info = Append(@, [msg |-> "has value", output |-> o.name])]
         IN  {verify_value_references(has, o.name, refs, 1, available_refs) :
                 refs \in Orderings(FoundRefs(Val(o.value)))}
    ELSE {[acc EXCEPT !.warnings = Append(@, [msg |-> "missing value", output |-> o.name])]}

\* the value check of the loop body: the findings after it, one for each
\* order in which the set of found references may be iterated
CheckValue(acc, o, available_refs) ==
    IF Truthy(o.value)
    THEN LET has == [acc EXCEPT !.info = Append(@, [msg |-> "has value", output |-> o.name])]
         IN  {verify_value_references(has, o.name, refs, 1, available_refs) :
                 refs \in Orderings(FoundRefs(Val(o.value)))}
    ELSE {[acc EXCEPT !.errors = Append(@, [msg |-> "missing value", output |-> o.name])]}

RECURSIVE VerifyOutputs(_, _, _, _)
\* the loop over outputs.items(): the possible findings after outputs k..
VerifyOutputs(acc, outputs, k, available_refs) ==
    IF k > Len(outputs) THEN {acc}
    ELSE UNION {VerifyOutputs(a, outputs, k + 1, available_refs) :
                   a \in CheckValue(CheckDescription(acc, outputs[k]), outputs[k],
                                    available_refs)}

\* verify_output_references after the loading: without outputs it returns
verify_output_references(acc, outputs, available_refs) ==
    IF outputs = << >> THEN {acc} ELSE VerifyOutputs(acc, outputs, 1, available_refs)

\* VerifyOutputReferences recording a missing main.tf as an error
VerifyOutputReferences_MissingMainIsError ==
    /\ tool = "output_verifier"
    /\ pc = "verify_output_references"
    /\ \E a \in verify_output_references(
                   [errors |-> IF Exists(dir, "main") THEN errors
                               ELSE Append(errors, [msg |-> "main.tf not found"]),
                    warnings |-> warnings, info |-> info],
                   load_outputs(dir), AvailableRefs(load_resources(dir))) :
          /\ errors' = a.errors
          /\ warnings' = a.warnings
          /\ info' = a.info
    /\ pc' = "verify_common_outputs"
    /\ UNCHANGED << tool, dir, gen, exit_status, out, tester_vars, cidr_vars, orchestrator_vars >>

\* verify_output_references
VerifyOutputReferences ==
    /\ tool = "output_verifier"
    /\ pc = "verify_output_references"
    /\ \E a \in verify_output_references(
                   [errors |-> errors, warnings |-> warnings, info |-> info],
                   load_outputs(dir), AvailableRefs(load_resources(dir))) :
          /\ errors' = a.errors
          /\ warnings' = a.warnings
          /\ info' = a.info
    /\ pc' = "verify_common_outputs"
    /\ UNCHANGED << tool, dir, gen, exit_status, out, tester_vars, cidr_vars, orchestrator_vars >>

\* common_outputs of verify_common_outputs, in the dict's order
common_outputs ==
    << << "id", "Resource identifier" >>,
       << "arn", "Amazon Resource Name" >>,
       << "name", "Resource name" >>,
       << "vpc_id", "VPC identifier" >>,
       << "subnet_id", "Subnet identifier" >>,
       << "security_group_id", "Security group identifier" >>,
       << "instance_id", "Instance identifier" >>,
       << "private_ip", "Private IP address" >>,
       << "public_ip", "Public IP address" >> >>

\* found_common: for each output, the first common name its name contains
FoundCommon(outputs) ==
    LET hit(n) == {k \in 1..Len(common_outputs) :
                      Contains(StrLower(outputs[n].name), common_outputs[k][1])}
    IN  SelectSeq([n \in 1..Len(outputs) |->
                     IF hit(n) = {} THEN << >>
                     ELSE << outputs[n].name, common_outputs[Min(hit(n))][2] >>],
                  LAMBDA e : e # << >>)

\* verify_common_outputs after the loading: without outputs it returns
verify_common_outputs(printed, outputs) ==
    IF outputs = << >> THEN printed
    ELSE Append(printed, [line |-> "common outputs", found |-> FoundCommon(outputs)])

\* verify_common_outputs: prints only
VerifyCommonOutputs ==
    /\ tool = "output_verifier"
    /\ pc = "verify_common_outputs"
    /\ out' = verify_common_outputs(out, load_outputs(dir))
    /\ pc' = "verify_output_organization"
    /\ UNCHANGED << tool, dir, gen, checker_vars, exit_status, tester_vars, cidr_vars, orchestrator_vars >>

\* the keys of prefixes: the first '_'-separated part of every output name
\* that has more than one part
Prefixes(outputs) ==
    {Split(outputs[n].name, "_")[1] :
        n \in {m \in 1..Len(outputs) : Len(Split(outputs[m].name, "_")) > 1}}

\* verify_output_organization after the loading: without outputs it returns
verify_output_organization(printed, outputs) ==
    IF outputs = << >> THEN printed
    ELSE Append(printed, [line |-> "organization", total |-> Len(outputs),
                          prefixes |-> Cardinality(Prefixes(outputs))])

\* verify_output_organization: prints only
VerifyOutputOrganization ==
    /\ tool = "output_verifier"
    /\ pc = "verify_output_organization"
    /\ out' = verify_output_organization(out, load_outputs(dir))
    /\ pc' = "summary"
    /\ UNCHANGED << tool, dir, gen, checker_vars, exit_status, tester_vars, cidr_vars, orchestrator_vars >>

\* the end of run_verification and of the script:
\* return len(self.errors) == 0;  exit(0 if success else 1)
VerificationSuccess(errs, warns) == Len(errs) = 0

\* the findings and the result of a call that ended with the findings a
VerificationOf(a) ==
    [errors |-> a.errors, warnings |-> a.warnings, info |-> a.info,
     result |-> VerificationSuccess(a.errors, a.warnings)]

\* run_verification on the directory d: the findings and the result it can
\* end with (verify_common_outputs and verify_output_organization only print)
run_verification(d) ==
    {VerificationOf(a) :
        a \in verify_output_references([errors |-> << >>, warnings |-> << >>, info |-> << >>],
                                       load_outputs(d), AvailableRefs(load_resources(d)))}

VerifierExit ==
    /\ tool = "output_verifier"
    /\ pc = "summary"
    /\ exit_status' = IF VerificationSuccess(errors, warnings) THEN 0 ELSE 1
    /\ pc' = "done"
    /\ UNCHANGED << tool, dir, gen, checker_vars, out, tester_vars, cidr_vars, orchestrator_vars >>

---------------------------------------------------------------------------
(* terraform_module_validator.py                                           *)

\* the files of the directory and their names
FileName(f) ==
    CASE f = "main" -> "main.tf" [] f = "variables" -> "variables.tf"
      [] f = "outputs" -> "outputs.tf" [] f = "versions" -> "versions.tf"
      [] f = "locals" -> "locals.tf" [] f = "readme" -> "README.md"
      [] f = "examples" -> "examples/" [] f = "gitignore" -> ".gitignore"

required_files == << "main", "variables", "outputs", "versions" >>

recommended_files == << "readme", "examples" >>

Findings(e, w, i) == [errors |-> e, warnings |-> w, info |-> i]

AddError(acc, f) == [acc EXCEPT !.errors = Append(@, f)]
AddWarning(acc, f) == [acc EXCEPT !.warnings = Append(@, f)]
AddInfo(acc, f) == [acc EXCEPT !.info = Append(@, f)]

\* CheckRequired with a missing required file recorded as a warning
CheckRequired_AsWarning(acc, d, f) ==
    IF Exists(d, f)
    THEN AddInfo(acc, [msg |-> "Required file exists", file |-> FileName(f)])
    ELSE AddWarning(acc, [msg |-> "Missing required file", file |-> FileName(f)])

\* one item of the first loop of validate_file_structure
CheckRequired(acc, d, f) ==
    IF Exists(d, f)
    THEN AddInfo(acc, [msg |-> "Required file exists", file |-> FileName(f)])
    ELSE AddError(acc, [msg |-> "Missing required file", file |-> FileName(f)])

\* one item of the second loop of validate_file_structure
CheckRecommended(acc, d, f) ==
    IF Exists(d, f)
    THEN AddInfo(acc, [msg |-> "Recommended file/directory exists", file |-> FileName(f)])
    ELSE AddWarning(acc, [msg |-> "Missing recommended file/directory", file |-> FileName(f)])

RECURSIVE StructureLoop(_, _, _, _)
StructureLoop(acc, d, k, n) ==
    IF k > n THEN acc
    ELSE StructureLoop(IF k <= Len(required_files)
                       THEN CheckRequired(acc, d, required_files[k])
                       ELSE CheckRecommended(acc, d,
                                recommended_files[k - Len(required_files)]),
                       d, k + 1, n)

\* validate_file_structure
validate_file_structure(acc, d) ==
    StructureLoop(acc, d, 1, Len(required_files) + Len(recommended_files))

\* check_brackets reporting only more "{" than "}"
check_brackets_UnclosedOnly(acc, content, filename) ==
    LET open_braces == StrCount(content, "{")
        close_braces == StrCount(content, "}")
    IN  IF open_braces > close_braces
        THEN AddError(acc, [msg |-> "Unbalanced braces", file |-> filename,
                            open |-> IntToStr(open_braces),
                            close |-> IntToStr(close_braces)])
        ELSE AddInfo(acc, [msg |-> "Brackets are balanced", file |-> filename])

\* _check_brackets
check_brackets(acc, content, filename) ==
    LET open_braces == StrCount(content, "{")
        close_braces == StrCount(content, "}")
    IN  IF open_braces # close_braces
        THEN AddError(acc, [msg |-> "Unbalanced braces", file |-> filename,
                            open |-> IntToStr(open_braces),
                            close |-> IntToStr(close_braces)])
        ELSE AddInfo(acc, [msg |-> "Brackets are balanced", file |-> filename])

RECURSIVE QuoteLoop(_, _, _, _)
QuoteLoop(acc, lines, i, filename) ==
    IF i > Len(lines) THEN acc
    ELSE LET line == lines[i]
             quote_count == StrCount(line, "\"") - StrCount(line, "\\\"")
         IN  QuoteLoop(IF ~StartsWith(Strip(line), "#") /\ quote_count % 2 # 0
                       THEN AddWarning(acc, [msg |-> "Possible unbalanced quotes",
                                             file |-> filename, line |-> IntToStr(i)])
                       ELSE acc,
                       lines, i + 1, filename)

\* _check_quotes
check_quotes(acc, content, filename) == QuoteLoop(acc, Split(content, "\n"), 1, filename)

\* r'variable\s+"[^"]+"\s*{'
variable_pattern ==
    << Lit("variable"), Plus(WS), Quote, Plus(NotQuote), Quote, Star(WS), Lit("{") >>

\* r'output\s+"[^"]+"\s*{'
output_head_pattern ==
    << Lit("output"), Plus(WS), Quote, Plus(NotQuote), Quote, Star(WS), Lit("{") >>

\* if resources: ... Found n resource blocks
CountResources(acc, filename, resources) ==
    IF resources # << >>
    THEN AddInfo(acc, [msg |-> "Found resource blocks", file |-> filename,
                       count |-> IntToStr(Len(resources))])
    ELSE acc

\* if filename == 'variables.tf': ... Found n variable definitions
CountVariables(acc, content, filename) ==
    IF filename = "variables.tf"
    THEN AddInfo(acc, [msg |-> "Found variable definitions", file |-> filename,
                       count |-> IntToStr(Len(ReFindAll(variable_pattern, content)))])
    ELSE acc

\* if filename == 'outputs.tf': ... Found n output definitions
CountOutputs(acc, content, filename) ==
    IF filename = "outputs.tf"
    THEN AddInfo(acc, [msg |-> "Found output definitions", file |-> filename,
                       count |-> IntToStr(Len(ReFindAll(output_head_pattern, content)))])
    ELSE acc

\* _check_resource_syntax (its resource pattern is resource_pattern without groups)
check_resource_syntax(acc, content, filename) ==
    CountOutputs(
        CountVariables(
            CountResources(acc, filename, ReFindAll(resource_pattern, content)),
            content, filename),
        content, filename)

\* the body of the loop of validate_terraform_syntax for one file
CheckSyntaxOf(acc, content, filename) ==
    check_resource_syntax(
        check_quotes(
            check_brackets(
                AddInfo(acc, [msg |-> "Checking syntax for", file |-> filename]),
                content, filename),
            content, filename),
        content, filename)

RECURSIVE validate_terraform_syntax(_, _, _)
\* validate_terraform_syntax over the files glob('*.tf') lists, from the k-th
validate_terraform_syntax(acc, d, k) ==
    IF k > Len(d.listing) THEN acc
    ELSE validate_terraform_syntax(
             CheckSyntaxOf(acc, Val(d[d.listing[k]]), FileName(d.listing[k])), d, k + 1)

\* r'variable\s+"([^"]+)"'   group: node 4
variable_name_pattern == << Lit("variable"), Plus(WS), Quote, Plus(NotQuote), Quote >>

RECURSIVE UsageLoop_WholeName(_, _, _, _)
\* UsageLoop looking for var.<name> as a whole word at the end of a line
UsageLoop_WholeName(acc, variable_names, k, main_content) ==
    IF k > Len(variable_names) THEN acc
    ELSE UsageLoop_WholeName(
             IF Contains(main_content, "var." \o variable_names[k] \o "\n")
             THEN AddInfo(acc, [msg |-> "is used in main.tf",
                                variable |-> variable_names[k]])
             ELSE AddWarning(acc, [msg |-> "is defined but not used",
                                   variable |-> variable_names[k]]),
             variable_names, k + 1, main_content)

RECURSIVE UsageLoop(_, _, _, _)
\* the loop of validate_variables over variable_names
UsageLoop(acc, variable_names, k, main_content) ==
    IF k > Len(variable_names) THEN acc
    ELSE UsageLoop(IF Contains(main_content, "var." \o variable_names[k])
                   THEN AddInfo(acc, [msg |-> "is used in main.tf",
                                      variable |-> variable_names[k]])
                   ELSE AddWarning(acc, [msg |-> "is defined but not used",
                                         variable |-> variable_names[k]]),
                   variable_names, k + 1, main_content)

\* group k of each of the matches ms
Groups(content, ms, k) == [n \in 1..Len(ms) |-> Group(content, ms[n], k)]

\* validate_variables from the count of the variables on
CheckUsage(acc, variable_names, main_content) ==
    UsageLoop(AddInfo(acc, [msg |-> "Found variable definitions in all",
                            count |-> IntToStr(Len(variable_names))]),
              variable_names, 1, main_content)

\* validate_variables
validate_variables(acc, d) ==
    IF ~Exists(d, "variables") \/ ~Exists(d, "main") THEN acc
    ELSE CheckUsage(acc,
                    Groups(Val(d["variables"]),
                           ReFindAll(variable_name_pattern, Val(d["variables"])), 4),
                    Val(d["main"]))

\* r'output\s+"([^"]+)"\s*{([^}]+)}'   groups: nodes 4 and 8
output_block_pattern ==
    << Lit("output"), Plus(WS), Quote, Plus(NotQuote), Quote, Star(WS), Lit("{"),
       Plus(NotCls({"}"})), Lit("}") >>

\* the body of the loop of validate_outputs
CheckOutputBlock(acc, output_name, output_content) ==
    LET a == IF Contains(output_content, "description")
             THEN AddInfo(acc, [msg |-> "has description", output |-> output_name])
             ELSE AddWarning(acc, [msg |-> "missing description", output |-> output_name])
    IN  IF Contains(output_content, "value")
        THEN AddInfo(a, [msg |-> "has value", output |-> output_name])
        ELSE AddError(a, [msg |-> "missing value", output |-> output_name])

RECURSIVE OutputBlockLoop(_, _, _, _)
OutputBlockLoop(acc, content, ms, k) ==
    IF k > Len(ms) THEN acc
    ELSE OutputBlockLoop(CheckOutputBlock(acc, Group(content, ms[k], 4),
                                          Group(content, ms[k], 8)),
                         content, ms, k + 1)

\* validate_outputs
validate_outputs(acc, d) ==
    IF ~Exists(d, "outputs") THEN acc
    ELSE LET content == Val(d["outputs"])
         IN  OutputBlockLoop(acc, content, ReFindAll(output_block_pattern, content), 1)

\* validate_variable_constraints
validate_variable_constraints(acc, d) ==
    IF ~Exists(d, "variables") THEN acc
    ELSE LET content == Val(d["variables"])
         IN  AddInfo(AddInfo(AddInfo(acc,
                 [msg |-> "Found variable validation blocks",
                  count |-> IntToStr(StrCount(content, "validation {"))]),
                 [msg |-> "Found variables with default values",
                  count |-> IntToStr(StrCount(content, "default ="))]),
                 [msg |-> "Found variables with type definitions",
                  count |-> IntToStr(StrCount(content, "type ="))])

\* r'resource\s+"([^"]+)"\s+"([^"]+)"'   groups: nodes 4 and 8
resource_name_pattern ==
    << Lit("resource"), Plus(WS), Quote, Plus(NotQuote), Quote, Plus(WS),
       Quote, Plus(NotQuote), Quote >>

\* r'^[a-z][a-z0-9_]*$'
snake_case_pattern ==
    << Bos, Cls(Lower), Star(Cls(Lower \cup Digit \cup {"_"})), Eos >>

RECURSIVE NamingLoop(_, _, _, _)
NamingLoop(acc, content, ms, k) ==
    IF k > Len(ms) THEN acc
    ELSE LET resource_name == Group(content, ms[k], 8)
         IN  NamingLoop(IF ~ReMatch(snake_case_pattern, resource_name)
                        THEN AddWarning(acc, [msg |-> "doesn't follow snake_case convention",
                                              resource |-> resource_name])
                        ELSE AddInfo(acc, [msg |-> "follows naming convention",
                                           resource |-> resource_name]),
                        content, ms, k + 1)

RECURSIVE validate_naming_conventions(_, _, _)
\* validate_naming_conventions over the files glob('*.tf') lists, from the k-th
validate_naming_conventions(acc, d, k) ==
    IF k > Len(d.listing) THEN acc
    ELSE LET content == Val(d[d.listing[k]])
         IN  validate_naming_conventions(
                 NamingLoop(acc, content, ReFindAll(resource_name_pattern, content), 1),
                 d, k + 1)

Current == Findings(errors, warnings, info)

\* self.errors, self.warnings, self.info become those of acc
Record(acc) ==
    /\ errors' = acc.errors
    /\ warnings' = acc.warnings
    /\ info' = acc.info

ValidateFileStructure ==
    /\ tool = "module_validator"
    /\ pc = "validate_file_structure"
    /\ Record(validate_file_structure(Current, dir))
    /\ pc' = "validate_terraform_syntax"
    /\ UNCHANGED << tool, dir, gen, exit_status, out, tester_vars, cidr_vars, orchestrator_vars >>

ValidateTerraformSyntax ==
    /\ tool = "module_validator"
    /\ pc = "validate_terraform_syntax"
    /\ Record(validate_terraform_syntax(Current, dir, 1))
    /\ pc' = "validate_variables"
    /\ UNCHANGED << tool, dir, gen, exit_status, out, tester_vars, cidr_vars, orchestrator_vars >>

ValidateVariables ==
    /\ tool = "module_validator"
    /\ pc = "validate_variables"
    /\ Record(validate_variables(Current, dir))
    /\ pc' = "validate_outputs"
    /\ UNCHANGED << tool, dir, gen, exit_status, out, tester_vars, cidr_vars, orchestrator_vars >>

ValidateOutputs ==
    /\ tool = "module_validator"
    /\ pc = "validate_outputs"
    /\ Record(validate_outputs(Current, dir))
    /\ pc' = "validate_variable_constraints"
    /\ UNCHANGED << tool, dir, gen, exit_status, out, tester_vars, cidr_vars, orchestrator_vars >>

ValidateVariableConstraints ==
    /\ tool = "module_validator"
    /\ pc = "validate_variable_constraints"
    /\ Record(validate_variable_constraints(Current, dir))
    /\ pc' = "validate_naming_conventions"
    /\ UNCHANGED << tool, dir, gen, exit_status, out, tester_vars, cidr_vars, orchestrator_vars >>

ValidateNamingConventions ==
    /\ tool = "module_validator"
    /\ pc = "validate_naming_conventions"
    /\ Record(validate_naming_conventions(Current, dir, 1))
    /\ pc' = "summary"
    /\ UNCHANGED << tool, dir, gen, exit_status, out, tester_vars, cidr_vars, orchestrator_vars >>

\* the end of run_validation and of the script:
\* return len(self.errors) == 0;  exit(0 if success else 1)
\* ValidationSuccess asking for no warning either
ValidationSuccess_NoWarnings(errs, warns) == Len(errs) = 0 /\ Len(warns) = 0

ValidationSuccess(errs, warns) == Len(errs) = 0

ValidatorExit ==
    /\ tool = "module_validator"
    /\ pc = "summary"
    /\ exit_status' = IF ValidationSuccess(errors, warnings) THEN 0 ELSE 1
    /\ pc' = "done"
    /\ UNCHANGED << tool, dir, gen, checker_vars, out, tester_vars, cidr_vars, orchestrator_vars >>

---------------------------------------------------------------------------
(* variable_validation_tester.py                                           *)

\* r'variable\s+"([^"]+)"\s*{([^}]+(?:{[^}]*}[^}]*)*)}'   groups: nodes 4 and 8
variable_block_pattern ==
    << Lit("variable"), Plus(WS), Quote, Plus(NotQuote), Quote, Star(WS), Lit("{"),
       SeqOf(<< Plus(NotCls({"}"})),
                Star(SeqOf(<< Lit("{"), Star(NotCls({"}"})), Lit("}"),
                              Star(NotCls({"}"})) >>)) >>),
       Lit("}") >>

\* r'type\s*=\s*([^\n]+)'   group: node 5
type_pattern == << Lit("type"), Star(WS), Lit("="), Star(WS), Plus(NotCls({"\n"})) >>

\* r'default\s*=\s*([^\n]+)'   group: node 5
default_pattern == << Lit("default"), Star(WS), Lit("="), Star(WS), Plus(NotCls({"\n"})) >>

\* r'validation\s*{([^}]+)}'   group: node 4
validation_block_pattern ==
    << Lit("validation"), Star(WS), Lit("{"), Plus(NotCls({"}"})), Lit("}") >>

\* r'condition\s*=\s*([^\n]+)'   group: node 5
condition_pattern ==
    << Lit("condition"), Star(WS), Lit("="), Star(WS), Plus(NotCls({"\n"})) >>

\* r'error_message\s*=\s*"([^"]+)"'   group: node 6
error_message_pattern ==
    << Lit("error_message"), Star(WS), Lit("="), Star(WS), Quote, Plus(NotQuote), Quote >>

extract_type(content) == StripGroupOrNone(content, ReSearch(type_pattern, content), 5)

extract_default(content) == StripGroupOrNone(content, ReSearch(default_pattern, content), 5)

\* the rule of a validation block, if it has a condition and a message
RuleOf(block, condition_match, error_match) ==
    IF condition_match # << >> /\ error_match # << >>
    THEN << [condition |-> Strip(Group(block, condition_match, 5)),
             error_message |-> Group(block, error_match, 6)] >>
    ELSE << >>

RECURSIVE ValidationRules(_, _, _)
ValidationRules(content, ms, k) ==
    IF k > Len(ms) THEN << >>
    ELSE RuleOf(Group(content, ms[k], 4),
                ReSearch(condition_pattern, Group(content, ms[k], 4)),
                ReSearch(error_message_pattern, Group(content, ms[k], 4)))
         \o ValidationRules(content, ms, k + 1)

extract_validation_rules(content) ==
    ValidationRules(content, ReFindAll(validation_block_pattern, content), 1)

RECURSIVE VariableDetails(_, _, _)
VariableDetails(content, ms, k) ==
    IF k = 0 THEN << >>
    ELSE LET var_content == Group(content, ms[k], 8)
         IN  DictPut(VariableDetails(content, ms, k - 1),
                     [name             |-> Group(content, ms[k], 4),
                      type             |-> extract_type(var_content),
                      default          |-> extract_default(var_content),
                      validation_rules |-> extract_validation_rules(var_content)])

AllVariableDetails(content, ms) == VariableDetails(content, ms, Len(ms))

\* load_variable_validations: the dict name -> details, as its items in order
load_variable_validations(d) ==
    IF ~Exists(d, "variables") THEN << >>
    ELSE AllVariableDetails(Val(d["variables"]),
                            ReFindAll(variable_block_pattern, Val(d["variables"])))

\* the test values: Python strings, lists of strings, booleans and None
StrV(v) == [t |-> "str", v |-> v]
ListV(v) == [t |-> "list", v |-> v]
BoolV(v) == [t |-> "bool", v |-> v]
NoneV == [t |-> "none", v |-> ""]

RECURSIVE ReprItems(_)
ReprItems(items) ==
    IF items = << >> THEN ""
    ELSE "'" \o Head(items) \o "'"
         \o (IF Len(items) > 1 THEN ", " ELSE "") \o ReprItems(Tail(items))

\* str(test_value)
StrOf(x) ==
    CASE x.t = "str"  -> x.v
      [] x.t = "list" -> "[" \o ReprItems(x.v) \o "]"
      [] x.t = "bool" -> IF x.v THEN "True" ELSE "False"
      [] x.t = "none" -> "None"

\* generate_test_cases: the (value, expected, description) triples
generate_test_cases(var_name, var_info) ==
    LET n == StrLower(var_name)
    IN  IF Contains(n, "region") THEN
            << << StrV("us-east-1"), TRUE, "Valid US East region" >>,
               << StrV("eu-west-1"), TRUE, "Valid EU West region" >>,
               << StrV("invalid-region"), FALSE, "Invalid region format" >>,
               << StrV("us-east"), FALSE, "Incomplete region format" >> >>
        ELSE IF Contains(n, "cidr") THEN
            << << StrV("10.0.0.0/16"), TRUE, "Valid private CIDR" >>,
               << StrV("192.168.1.0/24"), TRUE, "Valid private CIDR" >>,
               << StrV("172.16.0.0/12"), TRUE, "Valid private CIDR" >>,
               << StrV("invalid-cidr"), FALSE, "Invalid CIDR format" >>,
               << StrV("10.0.0.0/33"), FALSE, "Invalid CIDR mask" >> >>
        ELSE IF Contains(n, "instance_type") THEN
            << << StrV("t3.micro"), TRUE, "Valid instance type" >>,
               << StrV("m5.large"), TRUE, "Valid instance type" >>,
               << StrV("c5.xlarge"), TRUE, "Valid instance type" >>,
               << StrV("invalid.type"), FALSE, "Invalid instance type" >>,
               << StrV("nonexistent.huge"), FALSE, "Non-existent instance type" >> >>
        ELSE IF Contains(n, "name") \/ Contains(n, "prefix") THEN
            << << StrV("valid-name"), TRUE, "Valid name" >>,
               << StrV("test123"), TRUE, "Valid name with numbers" >>,
               << StrV("INVALID"), FALSE, "Uppercase not allowed" >>,
               << StrV("invalid_name"), FALSE, "Underscores not allowed" >>,
               << StrV("123invalid"), FALSE, "Cannot start with number" >> >>
        ELSE IF Contains(n, "environment") \/ Contains(n, "env") THEN
            << << StrV("dev"), TRUE, "Valid environment" >>,
               << StrV("prod"), TRUE, "Valid environment" >>,
               << StrV("staging"), TRUE, "Valid environment" >>,
               << StrV("invalid-env"), FALSE, "Invalid environment" >> >>
        ELSE IF Contains(n, "ami") THEN
            << << StrV("ami-12345678"), TRUE, "Valid AMI ID" >>,
               << StrV("ami-abcdef1234567890"), TRUE, "Valid long AMI ID" >>,
               << StrV("invalid-ami"), FALSE, "Invalid AMI format" >>,
               << StrV("ami-"), FALSE, "Incomplete AMI ID" >> >>
        ELSE IF Truthy(var_info.type) /\ Contains(Val(var_info.type), "list") THEN
            << << ListV(<< "item1", "item2" >>), TRUE, "Valid list" >>,
               << ListV(<< >>), TRUE, "Empty list" >>,
               << StrV("not-a-list"), FALSE, "Invalid type" >> >>
        ELSE IF Truthy(var_info.type) /\ Contains(Val(var_info.type), "bool") THEN
            << << BoolV(TRUE), TRUE, "Valid boolean true" >>,
               << BoolV(FALSE), TRUE, "Valid boolean false" >>,
               << StrV("true"), FALSE, "String instead of boolean" >> >>
        ELSE
            << << StrV("valid-value"), TRUE, "Generic valid value" >>,
               << StrV(""), FALSE, "Empty string" >>,
               << NoneV, FALSE, "Null value" >> >>

\* the result of the try block of _validate_cidr: it returns ret or raises
Returns(b) == [raised |-> FALSE, ret |-> b]
Raises == [raised |-> TRUE, ret |-> FALSE]

OctetOk(octet) == IsDigit(octet) /\ ToInt(octet) >= 0 /\ ToInt(octet) <= 255

\* MaskOk without the upper bound 32
MaskOk_NoUpperBound(mask) == IsDigit(mask) /\ ToInt(mask) >= 0

MaskOk(mask) == IsDigit(mask) /\ ToInt(mask) >= 0 /\ ToInt(mask) <= 32

validate_cidr_try(s) ==
    IF ~Contains(s, "/") THEN Returns(FALSE)
    ELSE LET parts == Split(s, "/")
         IN  IF Len(parts) # 2 THEN Raises   \* ip, mask = ...: ValueError
             ELSE LET octets == Split(parts[1], ".")
                  IN  IF Len(octets) # 4 THEN Returns(FALSE)
                      ELSE IF \E k \in 1..4 : ~OctetOk(octets[k]) THEN Returns(FALSE)
                      ELSE IF ~MaskOk(parts[2]) THEN Returns(FALSE)
                      ELSE Returns(TRUE)

\* _validate_cidr: except: return False
validate_cidr(s) ==
    LET r == validate_cidr_try(s)
    IN  IF r.raised THEN Returns(FALSE) ELSE r

\* r'^[a-z]{2}-[a-z]+-[0-9]$'
region_pattern ==
    << Bos, Rep(Cls(Lower), 2, 2), Lit("-"), Plus(Cls(Lower)), Lit("-"), Cls(Digit), Eos >>

\* r'^ami-[0-9a-f]{8,17}$'
ami_pattern == << Bos, Lit("ami-"), Rep(Cls(Digit \cup HexLower), 8, 17), Eos >>

\* r'^[a-z][a-z0-9-]*[a-z0-9]$'
name_pattern ==
    << Bos, Cls(Lower), Star(Cls(Lower \cup Digit \cup {"-"})),
       Cls(Lower \cup Digit), Eos >>

\* simulate_validation
simulate_validation(var_name, test_value, validation_info) ==
    LET var_type == IF IsSome(validation_info.type) THEN Val(validation_info.type)
                    ELSE "None"
        n == StrLower(var_name)
    IN  IF Contains(var_type, "bool") /\ test_value.t # "bool" THEN FALSE
        ELSE IF Contains(var_type, "list") /\ test_value.t # "list" THEN FALSE
        ELSE IF Contains(n, "region") THEN ReMatch(region_pattern, StrOf(test_value))
        ELSE IF Contains(n, "cidr") THEN validate_cidr(StrOf(test_value)).ret
        ELSE IF Contains(n, "ami") THEN ReMatch(ami_pattern, StrOf(test_value))
        ELSE IF Contains(n, "name") \/ Contains(n, "prefix")
             THEN test_value.t = "str" /\ ReMatch(name_pattern, test_value.v)
        ELSE TRUE

ValidText(b) == IF b THEN "Valid" ELSE "Invalid"

RECURSIVE RunTestCases(_, _, _, _)
\* the inner loop of test_variable_combinations over the test cases from k
RunTestCases(acc, v, test_cases, k) ==
    IF k > Len(test_cases) THEN acc
    ELSE LET test_value == test_cases[k][1]
             expected_valid == test_cases[k][2]
             result == simulate_validation(v.name, test_value, v)
             ok == (result = expected_valid)
         IN  RunTestCases(
                 [total  |-> acc.total + 1,
                  passed |-> IF ok THEN acc.passed + 1 ELSE acc.passed,
                  out    |-> Append(acc.out,
                                [line |-> "test", variable |-> v.name,
                                 status |-> IF ok THEN "PASS" ELSE "FAIL",
                                 description |-> test_cases[k][3],
                                 value |-> StrOf(test_value),
                                 expected |-> ValidText(expected_valid),
                                 result |-> ValidText(result)])],
                 v, test_cases, k + 1)

\* the body of the outer loop for the variable v
TestOne(acc, v) == RunTestCases(acc, v, generate_test_cases(v.name, v), 1)

\* AllTestsPassed asking for one passed comparison only
AllTestsPassed_SomePassed(passed, total) == passed > 0

\* return passed_tests == total_tests
AllTestsPassed(passed, total) == passed = total

RECURSIVE TestVariables(_, _, _)
\* the outer loop of test_variable_combinations from the k-th variable on
TestVariables(acc, vs, k) ==
    IF k > Len(vs) THEN acc ELSE TestVariables(TestOne(acc, vs[k]), vs, k + 1)

\* the comparisons and the result of a call that ended with the counters acc
TestingOf(acc) ==
    [tests |-> acc.out, result |-> AllTestsPassed(acc.passed, acc.total)]

\* test_variable_combinations over the loaded variables vs
TestLoaded(vs) ==
    IF vs = << >> THEN [tests |-> << >>, result |-> FALSE]
    ELSE TestingOf(TestVariables([total |-> 0, passed |-> 0, out |-> << >>], vs, 1))

\* test_variable_combinations on the directory d: its comparisons and result
test_variable_combinations(d) == TestLoaded(load_variable_validations(d))

\* the start of test_variable_combinations: without variables it returns
\* False, and the script exits with 1
LoadVariableValidations ==
    /\ tool = "variable_tester"
    /\ pc = "load_variable_validations"
    /\ validations' = load_variable_validations(dir)
    /\ IF validations' = << >>
       THEN /\ out' = Append(out, [line |-> "No variables found to test"])
            /\ exit_status' = 1
            /\ pc' = "done"
       ELSE /\ pc' = "test_variables"
            /\ UNCHANGED << out, exit_status >>
    /\ UNCHANGED << tool, dir, gen, checker_vars, var_index, total_tests, passed_tests,
                    cidr_vars, orchestrator_vars >>

\* one iteration of the loop over validations.items()
TestVariable ==
    /\ tool = "variable_tester"
    /\ pc = "test_variables"
    /\ var_index <= Len(validations)
    /\ \E acc \in {TestOne([total |-> total_tests, passed |-> passed_tests, out |-> out],
                            validations[var_index])} :
          /\ total_tests' = acc.total
          /\ passed_tests' = acc.passed
          /\ out' = acc.out
    /\ var_index' = var_index + 1
    /\ UNCHANGED << tool, pc, dir, gen, checker_vars, exit_status, validations,
                    cidr_vars, orchestrator_vars >>

\* the end of test_variable_combinations and of the script
TesterExit ==
    /\ tool = "variable_tester"
    /\ pc = "test_variables"
    /\ var_index > Len(validations)
    /\ exit_status' = IF AllTestsPassed(passed_tests, total_tests) THEN 0 ELSE 1
    /\ pc' = "done"
    /\ UNCHANGED << tool, dir, gen, checker_vars, out, tester_vars, cidr_vars,
                    orchestrator_vars >>

\* a call of _validate_cidr: what it returns, or that it raised
ValidateCidr ==
    /\ tool = "validate_cidr"
    /\ pc = "call"
    /\ cidr_ret' = Some(validate_cidr(cidr_str))
    /\ pc' = "returned"
    /\ UNCHANGED << tool, dir, gen, checker_vars, exit_status, out, tester_vars,
                    cidr_str, orchestrator_vars >>

---------------------------------------------------------------------------
(* comprehensive_validator.py                                              *)

\* scripts of main: (script, description)
scripts ==
    << << "terraform_module_validator.py", "Module Structure and Syntax Validation" >>,
       << "variable_validation_tester.py", "Variable Validation Testing" >>,
       << "output_verifier.py", "Output Verification" >> >>

\* ScriptSuccess taking the exit status 1 for a success too
ScriptSuccess_UpToOne(returncode) == returncode <= 1

\* run_validation_script: return result.returncode == 0
ScriptSuccess(returncode) == returncode = 0

\* run_validation_script: except Exception: ... return False
ExceptionSuccess == FALSE

\* AppendResult keeping the successful results only
AppendResult_DropFailed(results, description, success) ==
    IF success THEN Append(results, << description, success >>) ELSE results

\* main: validation_results.append((description, success))
AppendResult(results, description, success) == Append(results, << description, success >>)

\* the child processes' ends, as the operating system gives them
ChildEnded(outcome) == gen' = [gen EXCEPT !.children = Append(@, outcome)]

\* subprocess.run starts the script as a child process and waits for it
StartChild ==
    /\ tool = "comprehensive_validator"
    /\ pc = "run_scripts"
    /\ script_index <= Len(scripts)
    /\ child = "none"
    /\ child' = "running"
    /\ out' = Append(out, [line |-> "run", script |-> scripts[script_index][1]])
    /\ UNCHANGED << tool, pc, dir, gen, checker_vars, exit_status, tester_vars, cidr_vars,
                    validation_results, script_index, report >>

\* subprocess.run raises before a child runs (no process can be started)
LaunchFails ==
    /\ tool = "comprehensive_validator"
    /\ pc = "run_scripts"
    /\ script_index <= Len(scripts)
    /\ child = "none"
    /\ ChildEnded([kind |-> "not started", code |-> -1])
    /\ out' = Append(out, [line |-> "Error running", script |-> scripts[script_index][1]])
    /\ validation_results' =
           AppendResult(validation_results, scripts[script_index][2], ExceptionSuccess)
    /\ script_index' = script_index + 1
    /\ UNCHANGED << tool, pc, dir, checker_vars, exit_status, tester_vars, cidr_vars,
                    child, report >>

\* the largest exit status of a child
MaxExitCode == 2

\* the child exits and subprocess.run returns its status
ChildExits ==
    /\ tool = "comprehensive_validator"
    /\ pc = "run_scripts"
    /\ child = "running"
    /\ \E returncode \in 0..MaxExitCode :
          /\ ChildEnded([kind |-> "exited", code |-> returncode])
          /\ validation_results' =
                 AppendResult(validation_results, scripts[script_index][2],
                              ScriptSuccess(returncode))
    /\ child' = "none"
    /\ script_index' = script_index + 1
    /\ UNCHANGED << tool, pc, dir, checker_vars, exit_status, out, tester_vars, cidr_vars,
                    report >>

\* subprocess.run raises while the child runs (it kills the child first)
ChildRunFails ==
    /\ tool = "comprehensive_validator"
    /\ pc = "run_scripts"
    /\ child = "running"
    /\ ChildEnded([kind |-> "killed", code |-> -9])
    /\ out' = Append(out, [line |-> "Error running", script |-> scripts[script_index][1]])
    /\ validation_results' =
           AppendResult(validation_results, scripts[script_index][2], ExceptionSuccess)
    /\ child' = "none"
    /\ script_index' = script_index + 1
    /\ UNCHANGED << tool, pc, dir, checker_vars, exit_status, tester_vars, cidr_vars,
                    report >>

Ok(text) == [mark |-> "ok", text |-> text]
Warn(text) == [mark |-> "warning", text |-> text]
Bad(text) == [mark |-> "missing", text |-> text]

\* best_practices of check_terraform_best_practices
best_practices(d) ==
    (IF Exists(d, "versions")
     THEN IF Contains(Val(d["versions"]), "required_providers")
          THEN << Ok("Provider version constraints defined") >>
          ELSE << Warn("Provider version constraints missing") >>
     ELSE << Warn("versions.tf file missing") >>)
    \o (IF Exists(d, "examples") THEN << Ok("Examples directory exists") >>
        ELSE << Warn("Examples directory missing") >>)
    \o (IF Exists(d, "readme")
        THEN LET readme_content == StrLower(Val(d["readme"]))
             IN  << Ok("README.md exists") >>
                 \o (IF Contains(readme_content, "usage")
                     THEN << Ok("README contains usage section") >>
                     ELSE << Warn("README missing usage section") >>)
                 \o (IF Contains(readme_content, "requirements")
                        \/ Contains(readme_content, "prerequisites")
                     THEN << Ok("README contains requirements section") >>
                     ELSE << Warn("README missing requirements section") >>)
        ELSE << Bad("README.md missing") >>)
    \o (IF Exists(d, "gitignore") THEN << Ok(".gitignore exists") >>
        ELSE << Warn(".gitignore missing") >>)
    \o (IF Exists(d, "locals")
        THEN << Ok("locals.tf exists (good for complex expressions)") >> ELSE << >>)

\* check_terraform_best_practices failing without a README.md
check_terraform_best_practices_NeedsReadme(d) == Exists(d, "readme")

\* check_terraform_best_practices: return True
check_terraform_best_practices(d) == TRUE

\* CheckBestPractices not waiting for the last child
CheckBestPractices_BeforeLastExit ==
    /\ tool = "comprehensive_validator"
    /\ pc = "run_scripts"
    /\ script_index >= Len(scripts)
    /\ out' = Append(out, [line |-> "best practices", practices |-> best_practices(dir)])
    /\ validation_results' =
           AppendResult(validation_results, "Terraform Best Practices",
                        check_terraform_best_practices(dir))
    /\ pc' = "summary"
    /\ UNCHANGED << tool, dir, gen, checker_vars, exit_status, tester_vars, cidr_vars,
                    script_index, child, report >>

\* main after the loop over scripts: the best-practices check and its result
CheckBestPractices ==
    /\ tool = "comprehensive_validator"
    /\ pc = "run_scripts"
    /\ script_index > Len(scripts)
    /\ child = "none"
    /\ out' = Append(out, [line |-> "best practices", practices |-> best_practices(dir)])
    /\ validation_results' =
           AppendResult(validation_results, "Terraform Best Practices",
                        check_terraform_best_practices(dir))
    /\ pc' = "summary"
    /\ UNCHANGED << tool, dir, gen, checker_vars, exit_status, tester_vars, cidr_vars,
                    script_index, child, report >>

\* passed: the number of results with success
Passed(results) == Cardinality({k \in 1..Len(results) : results[k][2]})

\* ReportOf naming every sub-check in the recommendations of a failed run
ReportOf_NamesAll(results) ==
    [score   |-> << IntToStr(Passed(results)), IntToStr(Len(results)) >>,
     results |-> [k \in 1..Len(results) |->
                    << IF results[k][2] THEN "PASS" ELSE "FAIL", results[k][1] >>],
     recommendations |->
         IF Passed(results) = Len(results)
         THEN [kind |-> "passes all validation checks", areas |-> << >>]
         ELSE [kind |-> "needs attention",
               areas |-> [k \in 1..Len(results) |-> results[k][1]]]]

\* the text generate_validation_report writes
ReportOf(results) ==
    [score   |-> << IntToStr(Passed(results)), IntToStr(Len(results)) >>,
     results |-> [k \in 1..Len(results) |->
                    << IF results[k][2] THEN "PASS" ELSE "FAIL", results[k][1] >>],
     recommendations |->
         IF Passed(results) = Len(results)
         THEN [kind |-> "passes all validation checks", areas |-> << >>]
         ELSE [kind |-> "needs attention",
               areas |-> SelectSeq([k \in 1..Len(results) |->
                                      IF results[k][2] THEN "" ELSE results[k][1]],
                                   LAMBDA a : a # "")]]

\* the summary of main and generate_validation_report
GenerateReport ==
    /\ tool = "comprehensive_validator"
    /\ pc = "summary"
    /\ out' = Append(out, [line |-> "Overall Results",
                           passed |-> IntToStr(Passed(validation_results)),
                           total |-> IntToStr(Len(validation_results))])
    /\ report' = Some(ReportOf(validation_results))
    /\ pc' = "report_written"
    /\ UNCHANGED << tool, dir, gen, checker_vars, exit_status, tester_vars, cidr_vars,
                    validation_results, script_index, child >>

\* main: return passed == total
MainSuccess(results) == Passed(results) = Len(results)

\* the end of main and of the script: exit(0 if success else 1)
OrchestratorExit ==
    /\ tool = "comprehensive_validator"
    /\ pc = "report_written"
    /\ exit_status' = IF MainSuccess(validation_results) THEN 0 ELSE 1
    /\ pc' = "done"
    /\ UNCHANGED << tool, dir, gen, checker_vars, out, tester_vars, cidr_vars,
                    orchestrator_vars >>

---------------------------------------------------------------------------
(* The module directories the output verifier is run on                    *)

Ref(kind, type, name, attr) == [kind |-> kind, type |-> type, name |-> name, attr |-> attr]

Decl(kind, type, name) == [kind |-> kind, type |-> type, name |-> name]

\* a declaration block of main.tf
RenderDecl(d) ==
    d.kind \o " \"" \o d.type \o "\" \"" \o d.name \o "\" {\n  count = 1\n}\n"

RECURSIVE Concat(_)
Concat(texts) == IF texts = << >> THEN "" ELSE Head(texts) \o Concat(Tail(texts))

RenderMain(decls) == Concat([k \in 1..Len(decls) |-> RenderDecl(decls[k])])

\* the text of a value expression
RenderExpr(e) ==
    CASE e.kind = "resource" -> e.type \o "." \o e.name \o "." \o e.attr
      [] e.kind = "data"     -> "data." \o e.type \o "." \o e.name \o "." \o e.attr
      [] e.kind \in {"var", "local"} ->
             e.kind \o "." \o e.name \o (IF e.attr = "" THEN "" ELSE "." \o e.attr)
      [] e.kind = "literal"  -> e.attr

\* an output block of outputs.tf
RenderOutput(o) ==
    "output \"" \o o.name \o "\" {\n"
    \o (IF IsSome(o.description)
        THEN "  description = \"" \o Val(o.description) \o "\"\n" ELSE "")
    \o (IF IsSome(o.value) THEN "  value = " \o RenderExpr(Val(o.value)) \o "\n" ELSE "")
    \o (IF o.sensitive THEN "  sensitive = true\n" ELSE "")
    \o "}\n"

RenderOutputs(os) == Concat([k \in 1..Len(os) |-> RenderOutput(os[k])])

OutputSpec(name, description, value, sensitive) ==
    [name |-> name, description |-> description, value |-> value, sensitive |-> sensitive]

\* the main.tf files: their declarations
MainChoices ==
    << << >>,
       << Decl("resource", "aws_instance", "web") >>,
       << Decl("resource", "aws_instance", "web1"),
          Decl("resource", "aws_s3_bucket", "logs") >>,
       << Decl("data", "aws_ami", "ubuntu"),
          Decl("resource", "aws_instance", "web") >> >>

\* the output blocks an outputs.tf is made of
OutputChoices ==
    << OutputSpec("instance_id", Some("The id"),
                  Some(Ref("resource", "aws_instance", "web", "id")), FALSE),
       OutputSpec("second_id", None,
                  Some(Ref("resource", "aws_instance", "web1", "id")), FALSE),
       OutputSpec("bucket_arn", Some("Logs"),
                  Some(Ref("resource", "aws_s3_bucket", "logs", "arn")), FALSE),
       OutputSpec("region", Some("Region"), Some(Ref("var", "", "region", "")), FALSE),
       OutputSpec("cfg_region", None,
                  Some(Ref("var", "", "aws_config", "region")), FALSE),
       OutputSpec("prefix", None, Some(Ref("local", "", "name_prefix", "")), FALSE),
       OutputSpec("ami", Some("AMI"),
                  Some(Ref("data", "aws_ami", "ubuntu", "id")), FALSE),
       OutputSpec("secret", Some("No value"), None, TRUE),
       OutputSpec("empty", None, None, FALSE) >>

\* the largest number of output blocks in an outputs.tf
MaxOutputs == 2

RECURSIVE SeqOfSet(_)
\* the elements of a set of numbers in increasing order
SeqOfSet(S) == IF S = {} THEN << >> ELSE << Min(S) >> \o SeqOfSet(S \ {Min(S)})

\* the outputs.tf files: up to MaxOutputs of the blocks, in the order above
OutputFiles ==
    {[k \in 1..Len(SeqOfSet(S)) |-> OutputChoices[SeqOfSet(S)[k]]] :
        S \in {T \in SUBSET (1..Len(OutputChoices)) : Cardinality(T) <= MaxOutputs}}

\* a directory without any file
EmptyDir ==
    [main |-> None, variables |-> None, outputs |-> None, versions |-> None,
     readme |-> None, examples |-> None, gitignore |-> None, locals |-> None,
     listing |-> << >>]

NoGen ==
    [main |-> None, outputs |-> None, variables |-> None, versions |-> None,
     children |-> << >>, cidr |-> None]

\* the files glob('*.tf') can list
TfFiles(d) == {f \in {"locals", "main", "outputs", "variables", "versions"} : Exists(d, f)}

\* glob('*.tf') lists the files in the order the file system gives them
Listings(d) == Orderings(TfFiles(d))

SortedListing(d) ==
    SelectSeq(<< "locals", "main", "outputs", "variables", "versions" >>,
              LAMBDA f : Exists(d, f))

StartOfRunExceptCidr ==
    /\ errors = << >>
    /\ warnings = << >>
    /\ info = << >>
    /\ exit_status = -1
    /\ out = << >>
    /\ validations = << >>
    /\ var_index = 1
    /\ total_tests = 0
    /\ passed_tests = 0
    /\ validation_results = << >>
    /\ script_index = 1
    /\ child = "none"
    /\ report = None

StartOfRun ==
    /\ StartOfRunExceptCidr
    /\ cidr_str = ""
    /\ cidr_ret = None

InitVerifier ==
    /\ tool = "output_verifier"
    /\ pc = "verify_output_references"
    /\ \E m \in {None} \cup {Some(MainChoices[k]) : k \in 1..Len(MainChoices)},
          o \in {None} \cup {Some(f) : f \in OutputFiles} :
          /\ gen = [NoGen EXCEPT !.main = m, !.outputs = o]
          /\ LET d == [EmptyDir EXCEPT
                      !.main = IF IsSome(m) THEN Some(RenderMain(Val(m))) ELSE None,
                      !.outputs = IF IsSome(o) THEN Some(RenderOutputs(Val(o))) ELSE None]
             IN  dir = [d EXCEPT !.listing = SortedListing(d)]
    /\ StartOfRun

\* an output block with a nested block: before its value attribute, after
\* it, or without one ("")
NestedOutputSpec(name, value, nested) == [name |-> name, value |-> value, nested |-> nested]

NestedBlock == "  precondition {\n  }\n"

RenderNestedOutput(o) ==
    "output \"" \o o.name \o "\" {\n"
    \o (IF o.nested = "before" THEN NestedBlock ELSE "")
    \o (IF IsSome(o.value) THEN "  value = " \o RenderExpr(Val(o.value)) \o "\n" ELSE "")
    \o (IF o.nested = "after" THEN NestedBlock ELSE "")
    \o "}\n"

RenderNestedOutputs(os) == Concat([k \in 1..Len(os) |-> RenderNestedOutput(os[k])])

NestedOutputChoices ==
    << NestedOutputSpec("instance_id", Some(Ref("resource", "aws_instance", "web", "id")), ""),
       NestedOutputSpec("checked_id", Some(Ref("resource", "aws_instance", "web", "id")),
                        "before"),
       NestedOutputSpec("guarded_id", Some(Ref("resource", "aws_instance", "web", "id")),
                        "after"),
       NestedOutputSpec("region", Some(Ref("var", "", "region", "")), "before"),
       NestedOutputSpec("only_block", None, "before"),
       NestedOutputSpec("empty", None, "") >>

\* the largest number of output blocks in such an outputs.tf
MaxNestedOutputs == 2

NestedOutputFiles ==
    {[k \in 1..Len(SeqOfSet(S)) |-> NestedOutputChoices[SeqOfSet(S)[k]]] :
        S \in {T \in SUBSET (1..Len(NestedOutputChoices)) : Cardinality(T) <= MaxNestedOutputs}}

\* directories whose outputs.tf has output blocks with nested blocks
InitNested ==
    /\ tool = "output_verifier"
    /\ pc = "verify_output_references"
    /\ \E m \in {None} \cup {Some(MainChoices[k]) : k \in 1..Len(MainChoices)},
          o \in NestedOutputFiles :
          /\ gen = [NoGen EXCEPT !.main = m, !.outputs = Some(o)]
          /\ LET d == [EmptyDir EXCEPT
                      !.main = IF IsSome(m) THEN Some(RenderMain(Val(m))) ELSE None,
                      !.outputs = Some(RenderNestedOutputs(o))]
             IN  dir = [d EXCEPT !.listing = SortedListing(d)]
    /\ StartOfRun

---------------------------------------------------------------------------
(* The module directories the module validator is run on                   *)

ValidatorMainTexts ==
    { "resource \"aws_instance\" \"web\" {\n  ami = var.ami_id\n}\n",
      "resource \"aws_instance\" \"Web-1\" {\n  tags = { Name = \"x\n}\n" }

ValidatorVariablesTexts ==
    { "# the \"image\nvariable \"ami_id\" {\n  type = string\n  default = \"ami-1\"\n}\nvariable \"unused\" {\n}\n" }

ValidatorOutputsTexts ==
    { RenderOutputs(<< OutputChoices[1] >>),
      RenderOutputs(<< OutputChoices[9], OutputChoices[2] >>) }

ValidatorVersionsTexts ==
    { "terraform {\n  required_version = \">= 1.0\"\n}\n" }

OptOf(S) == {None} \cup {Some(x) : x \in S}

InitValidator ==
    /\ tool = "module_validator"
    /\ pc = "validate_file_structure"
    /\ gen = NoGen
    /\ \E m \in OptOf(ValidatorMainTexts), v \in OptOf(ValidatorVariablesTexts),
          o \in OptOf(ValidatorOutputsTexts), x \in OptOf(ValidatorVersionsTexts),
          r \in OptOf({"# Module\n"}), e \in OptOf({""}) :
          LET d == [EmptyDir EXCEPT !.main = m, !.variables = v, !.outputs = o,
                                    !.versions = x, !.readme = r, !.examples = e]
          IN  \E l \in Listings(d) : dir = [d EXCEPT !.listing = l]
    /\ StartOfRun

NextValidator ==
    \/ ValidateFileStructure
    \/ ValidateTerraformSyntax
    \/ ValidateVariables
    \/ ValidateOutputs
    \/ ValidateVariableConstraints
    \/ ValidateNamingConventions
    \/ ValidatorExit

\* the pieces a brace text is made of
BracePieces == {"{", "}", "a"}

\* the largest number of pieces in a brace text
MaxBraceLen == 4

RECURSIVE PieceSeqs(_)
\* the sequences of at most n pieces
PieceSeqs(n) ==
    IF n = 0 THEN {<< >>}
    ELSE LET shorter == PieceSeqs(n - 1)
         IN  shorter \cup {Append(q, c) : q \in shorter, c \in BracePieces}

\* directories whose main.tf is any text of braces, beside a versions.tf
InitBraces ==
    /\ tool = "module_validator"
    /\ pc = "validate_file_structure"
    /\ \E q \in PieceSeqs(MaxBraceLen),
          x \in OptOf({<< "{" >>, << "{", "a", "}" >>}) :
          /\ gen = [NoGen EXCEPT !.main = Some(q), !.versions = x]
          /\ LET d == [EmptyDir EXCEPT
                         !.main = Some(Concat(q)),
                         !.versions = IF IsSome(x) THEN Some(Concat(Val(x))) ELSE None]
             IN  \E l \in Listings(d) : dir = [d EXCEPT !.listing = l]
    /\ StartOfRun

---------------------------------------------------------------------------
(* The module directories the usage check of the module validator is run on *)

UsageVarSpec(name, type, default, validation) ==
    [name |-> name, type |-> type, default |-> default, validation |-> validation]

\* a variable block of variables.tf, with its validation block if it has one
RenderUsageVar(v) ==
    "variable \"" \o v.name \o "\" {\n"
    \o (IF IsSome(v.type) THEN "  type = " \o Val(v.type) \o "\n" ELSE "")
    \o (IF IsSome(v.default) THEN "  default = " \o Val(v.default) \o "\n" ELSE "")
    \o (IF v.validation
        THEN "  validation {\n    condition = length(var." \o v.name \o ") > 0\n"
             \o "    error_message = \"Must not be empty.\"\n  }\n"
        ELSE "")
    \o "}\n"

RenderUsageVars(vs) == Concat([k \in 1..Len(vs) |-> RenderUsageVar(vs[k])])

\* the variable blocks a variables.tf is made of
UsageVarChoices ==
    << UsageVarSpec("environment", None, None, FALSE),
       UsageVarSpec("env", Some("string"), Some("\"dev\""), FALSE),
       UsageVarSpec("ami_id", Some("string"), None, TRUE),
       UsageVarSpec("region", Some("string"), Some("\"us-east-1\""), TRUE),
       UsageVarSpec("enabled", Some("bool"), Some("false"), FALSE),
       UsageVarSpec("tags", None, Some("[]"), TRUE) >>

\* the largest number of variable blocks in such a variables.tf
MaxUsageVars == 2

UsageVariableFiles ==
    {[k \in 1..Len(SeqOfSet(S)) |-> UsageVarChoices[SeqOfSet(S)[k]]] :
        S \in {T \in SUBSET (1..Len(UsageVarChoices)) : Cardinality(T) <= MaxUsageVars}}

\* the main.tf files: the names after "var." in their lines, a comment included
UsageMainChoices ==
    { << >>,
      << "environment" >>,
      << "env", "ami_id" >>,
      << "region_name", "tags" >>,
      << "#enabled" >> }

\* a line of main.tf that mentions var.<name>, in an argument or in a comment
RenderUse(u) ==
    IF StartsWith(u, "#") THEN "  # was var." \o From(u, 2) \o "\n"
    ELSE "  " \o u \o " = var." \o u \o "\n"

RenderUsageMain(us) ==
    "resource \"aws_instance\" \"web\" {\n"
    \o Concat([k \in 1..Len(us) |-> RenderUse(us[k])]) \o "}\n"

InitUsage ==
    /\ tool = "module_validator"
    /\ pc = "validate_file_structure"
    /\ \E m \in OptOf(UsageMainChoices), v \in OptOf(UsageVariableFiles) :
          /\ gen = [NoGen EXCEPT !.main = m, !.variables = v]
          /\ LET d == [EmptyDir EXCEPT
                         !.main = IF IsSome(m) THEN Some(RenderUsageMain(Val(m))) ELSE None,
                         !.variables = IF IsSome(v) THEN Some(RenderUsageVars(Val(v)))
                                       ELSE None]
             IN  dir = [d EXCEPT !.listing = SortedListing(d)]
    /\ StartOfRun

---------------------------------------------------------------------------
(* The module directories the variable validation simulator is run on      *)

VarSpec(name, type) == [name |-> name, type |-> type]

\* a variable block of variables.tf
RenderVar(v) ==
    "variable \"" \o v.name \o "\" {\n"
    \o (IF IsSome(v.type) THEN "  type = " \o Val(v.type) \o "\n" ELSE "")
    \o "}\n"

RenderVariables(vs) == "# variables\n" \o Concat([k \in 1..Len(vs) |-> RenderVar(vs[k])])

\* the variable blocks a variables.tf is made of
VarChoices ==
    << VarSpec("aws_region", Some("string")),
       VarSpec("vpc_cidr", Some("string")),
       VarSpec("instance_type", Some("string")),
       VarSpec("name_prefix", None),
       VarSpec("environment", Some("string")),
       VarSpec("ami_id", Some("string")),
       VarSpec("tags", Some("list(string)")),
       VarSpec("enabled", Some("bool")),
       VarSpec("max_size", Some("number")),
       VarSpec("Regions", Some("list(string)")) >>

\* the largest number of variable blocks in a variables.tf
MaxVars == 2

\* the variables.tf files: up to MaxVars of the blocks, in the order above
VariableFiles ==
    {[k \in 1..Len(SeqOfSet(S)) |-> VarChoices[SeqOfSet(S)[k]]] :
        S \in {T \in SUBSET (1..Len(VarChoices)) : Cardinality(T) <= MaxVars}}

InitTester ==
    /\ tool = "variable_tester"
    /\ pc = "load_variable_validations"
    /\ \E v \in OptOf(VariableFiles) :
          /\ gen = [NoGen EXCEPT !.variables = v]
          /\ LET d == [EmptyDir EXCEPT
                         !.variables = IF IsSome(v) THEN Some(RenderVariables(Val(v)))
                                       ELSE None]
             IN  dir = [d EXCEPT !.listing = SortedListing(d)]
    /\ StartOfRun

NextTester ==
    \/ LoadVariableValidations
    \/ TestVariable
    \/ TesterExit

---------------------------------------------------------------------------
(* The strings _validate_cidr is called on                                 *)

\* the texts between the dots
OctetTexts == {"0", "10", "255", "256", "1x", ""}

\* the texts after the address: no mask, a mask, two masks
TailTexts == {"", "/0", "/16", "/32", "/33", "/", "/1x", "/16/8"}

\* the largest number of dot-separated parts
MaxOctets == 4

OctetSeqs == UNION {[1..n -> OctetTexts] : n \in 1..MaxOctets}

RECURSIVE Join(_, _)
\* sep.join(parts)
Join(parts, sep) ==
    IF Len(parts) = 0 THEN ""
    ELSE IF Len(parts) = 1 THEN parts[1]
    ELSE parts[1] \o sep \o Join(Tail(parts), sep)

InitCidr ==
    /\ tool = "validate_cidr"
    /\ pc = "call"
    /\ dir = EmptyDir
    /\ StartOfRunExceptCidr
    /\ \E q \in OctetSeqs, t \in TailTexts :
          /\ gen = [NoGen EXCEPT !.cidr = Some([octets |-> q, tail |-> t])]
          /\ cidr_str = Join(q, ".") \o t
    /\ cidr_ret = None

NextCidr == ValidateCidr

---------------------------------------------------------------------------
(* The module directories and the children of the orchestrator             *)

OrchestratorVersionsTexts ==
    { "terraform {\n  required_providers {\n  }\n}\n",
      "terraform {\n  required_version = \">= 1.0\"\n}\n" }

OrchestratorReadmeTexts ==
    { "# Module\n## Usage\n## Requirements\n", "# Module\n" }

InitOrchestrator ==
    /\ tool = "comprehensive_validator"
    /\ pc = "run_scripts"
    /\ gen = NoGen
    /\ \E x \in OptOf(OrchestratorVersionsTexts), r \in OptOf(OrchestratorReadmeTexts),
          e \in OptOf({""}) :
          LET d == [EmptyDir EXCEPT !.versions = x, !.readme = r, !.examples = e,
                                    !.gitignore = e, !.locals = e]
          IN  dir = [d EXCEPT !.listing = SortedListing(d)]
    /\ StartOfRun

NextOrchestrator ==
    \/ StartChild
    \/ LaunchFails
    \/ ChildExits
    \/ ChildRunFails
    \/ CheckBestPractices
    \/ GenerateReport
    \/ OrchestratorExit

vars ==
    << tool, pc, dir, gen, errors, warnings, info, exit_status, out,
       validations, var_index, total_tests, passed_tests, cidr_str, cidr_ret,
       validation_results, script_index, child, report >>

NextVerifier ==
    \/ VerifyOutputReferences
    \/ VerifyCommonOutputs
    \/ VerifyOutputOrganization
    \/ VerifierExit

SpecVerifier == InitVerifier /\ [][NextVerifier]_vars

SpecNested == InitNested /\ [][NextVerifier]_vars

SpecValidator == InitValidator /\ [][NextValidator]_vars

SpecBraces == InitBraces /\ [][NextValidator]_vars

SpecUsage == InitUsage /\ [][NextValidator]_vars

SpecTester == InitTester /\ [][NextTester]_vars

SpecCidr == InitCidr /\ [][NextCidr]_vars

SpecOrchestrator == InitOrchestrator /\ [][NextOrchestrator]_vars

\* the steps of the orchestrator's own process; the end of a child is the
\* child's step
OrchestratorStep ==
    \/ StartChild
    \/ LaunchFails
    \/ CheckBestPractices
    \/ GenerateReport
    \/ OrchestratorExit

\* the orchestrator's process is scheduled whenever it can take a step;
\* nothing makes a child exit
SpecOrchestratorFair == SpecOrchestrator /\ WF_vars(OrchestratorStep)

\* the two tools that load their input files, each on one of its directories
InitLoaders == InitVerifier \/ InitTester

NextLoaders == NextVerifier \/ NextTester

SpecLoaders == InitLoaders /\ [][NextLoaders]_vars

\* either checker, started on one of its directories
InitCheckers == InitValidator \/ InitVerifier

NextCheckers == NextValidator \/ NextVerifier

SpecCheckers == InitCheckers /\ [][NextCheckers]_vars

\* the module validator started on the directories of the output verifier
InitValidatorOnOutputs ==
    /\ tool = "module_validator"
    /\ pc = "validate_file_structure"
    /\ \E m \in {None} \cup {Some(MainChoices[k]) : k \in 1..Len(MainChoices)},
          o \in {None} \cup {Some(f) : f \in OutputFiles} :
          /\ gen = [NoGen EXCEPT !.main = m, !.outputs = o]
          /\ LET d == [EmptyDir EXCEPT
                      !.main = IF IsSome(m) THEN Some(RenderMain(Val(m))) ELSE None,
                      !.outputs = IF IsSome(o) THEN Some(RenderOutputs(Val(o))) ELSE None]
             IN  \E l \in Listings(d) : dir = [d EXCEPT !.listing = l]
    /\ StartOfRun

\* either tool, run on the same directories
InitSameOutputs == InitValidatorOnOutputs \/ InitVerifier

SpecSameOutputs == InitSameOutputs /\ [][NextCheckers]_vars

---------------------------------------------------------------------------
(* Properties of the orchestrator                                          *)

\* the child of a sub-check exited with status zero
ExitedZero(outcome) == outcome.kind = "exited" /\ outcome.code = 0

OrchestratorDone == tool = "comprehensive_validator" /\ pc = "done"

Descriptions ==
    << "Module Structure and Syntax Validation", "Variable Validation Testing",
       "Output Verification", "Terraform Best Practices" >>

\* C1: at the end of every run of the orchestrator the exit status is 0 if
\* every recorded sub-check succeeded and 1 otherwise, and a sub-check run as
\* a child process is recorded as succeeded exactly when the child exited
\* with status zero.
C1_ExitStatusIsConjunction ==
    OrchestratorDone =>
        /\ \A k \in 1..Len(gen.children) :
              validation_results[k][2] <=> ExitedZero(gen.children[k])
        /\ exit_status =
               IF \A k \in 1..Len(validation_results) : validation_results[k][2]
               THEN 0 ELSE 1
        /\ exit_status = 0 <=> \A k \in 1..Len(gen.children) : ExitedZero(gen.children[k])

\* a run in which every child exited with zero has ended with status 0
C1_Witness ==
    /\ OrchestratorDone
    /\ Len(gen.children) = 3
    /\ \A k \in 1..3 : ExitedZero(gen.children[k])
    /\ exit_status = 0

\* C2: a child that exits non-zero, that cannot be started or whose run
\* raises is recorded as one failed sub-check and the run goes on: the
\* results are always a prefix of the four sub-checks in their fixed order,
\* one result for each child that has ended, and a finished run has started
\* all three scripts, run the best-practices check and has four results.
C2_FailuresNeverAbort ==
    /\ tool = "comprehensive_validator" =>
          /\ Len(validation_results) <= 4
          /\ \A k \in 1..Len(validation_results) :
                validation_results[k][1] = Descriptions[k]
          /\ Len(validation_results) =
                 Len(gen.children) + (IF pc = "run_scripts" THEN 0 ELSE 1)
          /\ \A k \in 1..Len(gen.children) :
                ~ExitedZero(gen.children[k]) => validation_results[k][2] = FALSE
    /\ OrchestratorDone =>
          /\ Len(validation_results) = 4
          /\ Len(gen.children) = 3
          /\ \E k \in 1..Len(out) : out[k].line = "best practices"

\* a finished run whose first script could not be started, whose second was
\* killed by a raise and whose third exited non-zero
C2_Witness ==
    /\ OrchestratorDone
    /\ Len(gen.children) = 3
    /\ gen.children[1].kind = "not started"
    /\ gen.children[2].kind = "killed"
    /\ gen.children[3].kind = "exited" /\ gen.children[3].code # 0
    /\ Len(validation_results) = 4

\* the children that were started, and those of them that have ended
StartedChildren == {k \in 1..Len(out) : out[k].line = "run"}
EndedChildren == {k \in 1..Len(gen.children) : gen.children[k].kind \in {"exited", "killed"}}

BestPracticesChecked == \E k \in 1..Len(out) : out[k].line = "best practices"

\* the children run one after another, and nothing but the end of the
\* running child lets the orchestrator go on
OneChildAtATime ==
    /\ Cardinality(StartedChildren) - Cardinality(EndedChildren)
           = IF child = "running" THEN 1 ELSE 0
    /\ child = "running" =>
          /\ Len(gen.children) = script_index - 1
          /\ pc = "run_scripts"
          /\ ~BestPracticesChecked
          /\ report = None
          /\ ~ENABLED OrchestratorStep
    /\ (BestPracticesChecked \/ IsSome(report) \/ pc # "run_scripts") =>
          /\ Len(gen.children) = Len(scripts)
          /\ child = "none"

\* every child that runs exits (or is killed) at some time
EveryChildExits == (child = "running") ~> (child = "none")

\* C13: at most one child runs at any time, a child is started only after
\* all earlier children have ended, and the best-practices check and the
\* report come only after the last child has ended; if every child exits the
\* orchestrator terminates; if a child never exits the orchestrator stays
\* behind it for ever: no report, no exit.
C13_SequentialChildren ==
    /\ []OneChildAtATime
    /\ EveryChildExits => <>OrchestratorDone
    /\ <>[](child = "running") => [](report = None /\ ~OrchestratorDone)

\* the third child runs after the first two have ended
C13_Witness ==
    /\ tool = "comprehensive_validator"
    /\ child = "running"
    /\ script_index = 3
    /\ Len(gen.children) = 2
    /\ Cardinality(StartedChildren) = 3

\* the descriptions of the recorded sub-checks that failed, in their order
FailedSubChecks ==
    SelectSeq([k \in 1..Len(validation_results) |->
                  IF validation_results[k][2] THEN "" ELSE validation_results[k][1]],
              LAMBDA a : a # "")

\* the report of a finished run: one line per sub-check, and the
\* recommendations by the exit status
ReportMatchesRun ==
    /\ IsSome(report)
    /\ Len(Val(report).results) = Len(validation_results)
    /\ \A k \in 1..Len(validation_results) :
          Val(report).results[k] =
              << IF validation_results[k][2] THEN "PASS" ELSE "FAIL",
                 validation_results[k][1] >>
    /\ Val(report).recommendations.kind = "passes all validation checks"
          <=> exit_status = 0
    /\ Val(report).recommendations.areas = FailedSubChecks
    /\ exit_status # 0 => FailedSubChecks # << >>

\* the report is written in one step, from the summary, while the exit
\* status is not yet decided, and it is never written again
ReportWrittenOnce ==
    /\ IsSome(report) => report' = report
    /\ report' # report => pc = "summary" /\ exit_status = -1 /\ exit_status' = -1
    /\ exit_status' # exit_status => IsSome(report)

\* C14: a run that reaches its end has written the report exactly once, and
\* before its exit status was decided; the report has one PASS or FAIL line
\* for each recorded sub-check, its recommendations are the "passes all
\* validation checks" text exactly when the exit status is 0, and otherwise
\* they name exactly the failed sub-checks.
C14_OneReportBeforeExit ==
    /\ [](exit_status # -1 => IsSome(report))
    /\ [](OrchestratorDone => ReportMatchesRun)
    /\ [][ReportWrittenOnce]_vars

\* a finished run with two failed sub-checks, named in its report
C14_Witness ==
    /\ OrchestratorDone
    /\ exit_status = 1
    /\ IsSome(report)
    /\ Len(Val(report).recommendations.areas) = 2
    /\ Val(report).results[1][1] = "PASS"

\* the checklist the best-practices check printed
PrintedPractices ==
    LET at == {k \in 1..Len(out) : out[k].line = "best practices"}
    IN  IF at = {} THEN << >> ELSE out[Min(at)].practices

\* the entries of the checklist that are not confirmations
Shortcomings ==
    {k \in 1..Len(PrintedPractices) : PrintedPractices[k].mark \in {"warning", "missing"}}

\* C16: whatever the checklist of the best-practices check holds, its
\* sub-check is recorded as succeeded, as the fourth result, and the exit
\* status of a finished run is 0 exactly when the three subprocess
\* sub-checks succeeded.
C16_BestPracticesAlwaysSucceed ==
    (tool = "comprehensive_validator" /\ pc # "run_scripts") =>
        /\ Len(validation_results) = 4
        /\ validation_results[4] = << "Terraform Best Practices", TRUE >>
        /\ BestPracticesChecked
        /\ pc = "done" =>
              (exit_status = 0 <=> \A k \in 1..3 : validation_results[k][2])

\* a finished run on a directory without README.md, versions.tf, examples
\* and .gitignore, whose three children exited with zero: four shortcomings
\* on the checklist and the exit status 0
C16_Witness ==
    /\ OrchestratorDone
    /\ \A f \in {"readme", "versions", "examples", "gitignore"} : ~Exists(dir, f)
    /\ Cardinality(Shortcomings) = 4
    /\ \A k \in 1..3 : validation_results[k][2]
    /\ exit_status = 0

---------------------------------------------------------------------------
(* Properties of the module validator and of the output verifier           *)

CheckerDone == tool \in {"module_validator", "output_verifier"} /\ pc = "done"

\* C3: at the end of the module validator and of the output verifier the
\* result is true (exit status 0) exactly when the error list is empty,
\* whatever the warnings and the info findings are.
C3_ResultIffNoErrors ==
    CheckerDone => (exit_status = 0 <=> errors = << >>)

\* a run that ended true with warnings and without errors
C3_Witness ==
    /\ CheckerDone
    /\ errors = << >>
    /\ warnings # << >>
    /\ info # << >>
    /\ exit_status = 0

StructureMsgs ==
    {"Required file exists", "Missing required file",
     "Recommended file/directory exists", "Missing recommended file/directory"}

\* the findings of the structure check for an item, in a list of findings
StructureFindings(list, f, msg) ==
    {k \in 1..Len(list) : list[k].msg = msg /\ list[k].file = FileName(f)}

\* the number of findings of the structure check for an item: errors,
\* warnings and info findings
StructureCounts(f) ==
    [level \in {"errors", "warnings", "info"} |->
        LET list == CASE level = "errors" -> errors [] level = "warnings" -> warnings
                      [] level = "info" -> info
        IN  Cardinality(UNION {StructureFindings(list, f, msg) : msg \in StructureMsgs})]

ErrorOnly == [errors |-> 1, warnings |-> 0, info |-> 0]
WarningOnly == [errors |-> 0, warnings |-> 1, info |-> 0]
InfoOnly == [errors |-> 0, warnings |-> 0, info |-> 1]

RequiredItems == {"main", "variables", "outputs", "versions"}
RecommendedItems == {"readme", "examples"}

\* C4: once the structure check has run, each of the six items has exactly
\* one finding: an info when it is present, an error when a required item is
\* missing, a warning when a recommended item is missing; and the validator
\* ends false whenever a required file is missing.
C4_OneFindingPerItem ==
    (tool = "module_validator" /\ pc # "validate_file_structure") =>
        /\ \A f \in RequiredItems :
              StructureCounts(f) = IF Exists(dir, f) THEN InfoOnly ELSE ErrorOnly
        /\ \A f \in RecommendedItems :
              StructureCounts(f) = IF Exists(dir, f) THEN InfoOnly ELSE WarningOnly
        /\ (pc = "done" /\ \E f \in RequiredItems : ~Exists(dir, f)) => exit_status = 1

\* a finished run on a directory without outputs.tf and without README.md
C4_Witness ==
    /\ tool = "module_validator"
    /\ pc = "done"
    /\ ~Exists(dir, "outputs")
    /\ ~Exists(dir, "readme")
    /\ Exists(dir, "main")
    /\ Exists(dir, "examples")
    /\ exit_status = 1

\* the number of pieces c in the pieces a file was written from
Pieces(q, c) == Cardinality({k \in 1..Len(q) : q[k] = c})

\* the decimal numerals of the numbers of braces
Numeral(n) == << "0", "1", "2", "3", "4", "5", "6", "7", "8", "9" >>[n + 1]

BraceErrors(f) ==
    {k \in 1..Len(errors) : errors[k].msg = "Unbalanced braces"
                            /\ errors[k].file = FileName(f)}

BalancedInfos(f) ==
    {k \in 1..Len(info) : info[k].msg = "Brackets are balanced"
                          /\ info[k].file = FileName(f)}

SyntaxChecked ==
    tool = "module_validator"
    /\ pc \notin {"validate_file_structure", "validate_terraform_syntax"}

\* C5: once the syntax check has run, a scanned file written with as many
\* "{" as "}" has no brace error and one "balanced" info; a file written
\* with different numbers has exactly one brace error, which gives the
\* number of "{" and the number of "}".
C5_BraceBalance ==
    SyntaxChecked =>
        \A f \in {"main", "versions"} :
            IsSome(gen[f]) =>
                LET opens == Pieces(Val(gen[f]), "{")
                    closes == Pieces(Val(gen[f]), "}")
                IN  IF opens = closes
                    THEN BraceErrors(f) = {} /\ Cardinality(BalancedInfos(f)) = 1
                    ELSE /\ Cardinality(BraceErrors(f)) = 1
                         /\ BalancedInfos(f) = {}
                         /\ \A k \in BraceErrors(f) :
                               /\ errors[k].open = Numeral(opens)
                               /\ errors[k].close = Numeral(closes)

\* a main.tf written with one "{" and two "}" has its one brace error
C5_Witness ==
    /\ SyntaxChecked
    /\ gen.main = Some(<< "}", "a", "{", "}" >>)
    /\ Cardinality(BraceErrors("main")) = 1

ReferencesVerified == tool = "output_verifier" /\ pc # "verify_output_references"

\* the outputs the outputs.tf was written with
WrittenOutputs == IF IsSome(gen.outputs) THEN Val(gen.outputs) ELSE << >>

\* the declarations the main.tf was written with
WrittenDecls == IF IsSome(gen.main) THEN Val(gen.main) ELSE << >>

\* the findings about an output's value and its references
ErrorsOf(name, msg) ==
    {k \in 1..Len(errors) : errors[k].msg = msg /\ errors[k].output = name}

InfosOf(name, msg) ==
    {k \in 1..Len(info) : info[k].msg = msg /\ info[k].output = name}

WarningsOf(name, msg) ==
    {k \in 1..Len(warnings) : warnings[k].msg = msg /\ warnings[k].output = name}

AllErrorsOf(name) ==
    ErrorsOf(name, "missing value") \cup ErrorsOf(name, "references invalid resource")

\* C6: once the references are verified, an output written without a value
\* attribute has exactly one error, "missing value", and no reference
\* finding: no "valid resource" info and no "invalid resource" error.
C6_MissingValue ==
    ReferencesVerified =>
        \A n \in 1..Len(WrittenOutputs) :
            LET o == WrittenOutputs[n]
            IN  ~IsSome(o.value) =>
                    /\ Cardinality(ErrorsOf(o.name, "missing value")) = 1
                    /\ Cardinality(AllErrorsOf(o.name)) = 1
                    /\ InfosOf(o.name, "references valid resource") = {}
                    /\ InfosOf(o.name, "has value") = {}

\* the output "secret", written without a value beside an output with a
\* resource reference, after the verification
C6_Witness ==
    /\ ReferencesVerified
    /\ Len(WrittenOutputs) = 2
    /\ WrittenOutputs[1].name = "instance_id"
    /\ WrittenOutputs[2].name = "secret"
    /\ Cardinality(ErrorsOf("secret", "missing value")) = 1

\* main.tf declares resource "type" "name"
Declared(type, name) ==
    \E n \in 1..Len(WrittenDecls) : WrittenDecls[n] = Decl("resource", type, name)

\* C7: once the references are verified, an output whose value is the
\* resource reference type.name.attr has, when main.tf declares the
\* resource, one "valid resource" info for type.name and no error; when
\* main.tf does not declare it, exactly one "invalid resource" error, and the
\* verification ends false.
C7_ResourceReferences ==
    ReferencesVerified =>
        \A n \in 1..Len(WrittenOutputs) :
            LET o == WrittenOutputs[n]
            IN  (IsSome(o.value) /\ Val(o.value).kind = "resource") =>
                    LET ref == Val(o.value).type \o "." \o Val(o.value).name
                    IN  IF Declared(Val(o.value).type, Val(o.value).name)
                        THEN /\ \E k \in InfosOf(o.name, "references valid resource") :
                                    info[k].ref = ref
                             /\ Cardinality(InfosOf(o.name, "references valid resource")) = 1
                             /\ AllErrorsOf(o.name) = {}
                        ELSE /\ Cardinality(ErrorsOf(o.name, "references invalid resource")) = 1
                             /\ Cardinality(AllErrorsOf(o.name)) = 1
                             /\ pc = "done" => exit_status = 1

\* C8: once the references are verified, an output whose value is a var. or
\* a local. reference has no "invalid resource" error, whatever the variable
\* or local is named and whatever main.tf declares.
C8_VarAndLocalAlwaysValid ==
    ReferencesVerified =>
        \A n \in 1..Len(WrittenOutputs) :
            LET o == WrittenOutputs[n]
            IN  (IsSome(o.value) /\ Val(o.value).kind \in {"var", "local"}) =>
                    ErrorsOf(o.name, "references invalid resource") = {}

\* main.tf declares data "type" "name"
DeclaredData(type, name) ==
    \E n \in 1..Len(WrittenDecls) : WrittenDecls[n] = Decl("data", type, name)

\* C17: once the references are verified, an output whose value is the data
\* source reference data.type.name.attr, where main.tf declares the data
\* source, has a "valid resource" info for data.type.name and no error.
C17_DeclaredDataSourceValid ==
    ReferencesVerified =>
        \A n \in 1..Len(WrittenOutputs) :
            LET o == WrittenOutputs[n]
            IN  (/\ IsSome(o.value)
                 /\ Val(o.value).kind = "data"
                 /\ DeclaredData(Val(o.value).type, Val(o.value).name)) =>
                    /\ \E k \in InfosOf(o.name, "references valid resource") :
                           info[k].ref = "data." \o Val(o.value).type \o "." \o Val(o.value).name
                    /\ AllErrorsOf(o.name) = {}

---------------------------------------------------------------------------
(* Properties of the variable validation simulator                         *)

TesterDone == tool = "variable_tester" /\ pc = "done"

\* the comparisons of a run, and those that did not match
Comparisons == {k \in 1..Len(out) : out[k].line = "test"}
FailedComparisons == {k \in Comparisons : out[k].status = "FAIL"}

\* the variable blocks the variables.tf was written with
WrittenVariables == IF IsSome(gen.variables) THEN Val(gen.variables) ELSE << >>

C18_BatteriesAgreeWithVerdicts ==
    (TesterDone /\ WrittenVariables # << >>) =>
        /\ Comparisons # {}
        /\ FailedComparisons = {}
        /\ exit_status = 0

\* the texts that are decimal numbers in 0..255, and in 0..32 after a "/"
DecimalOctets == {"0", "10", "255"}
DecimalMasks == {"/0", "/16", "/32"}

\* the string is a.b.c.d/m with four octets in 0..255 and a mask in 0..32
WellFormedCidr(c) ==
    /\ Len(c.octets) = 4
    /\ \A k \in 1..4 : c.octets[k] \in DecimalOctets
    /\ c.tail \in DecimalMasks

\* C10: _validate_cidr never raises; it returns true for the strings
\* a.b.c.d/m of four decimal octets in 0..255 and a decimal mask in 0..32,
\* and false for every other string: true for 10.0.0.0/16, false for
\* 10.0.0.0/33, without a "/" and with two "/".
C10_ValidateCidr ==
    (tool = "validate_cidr" /\ pc = "returned") =>
        /\ Val(cidr_ret) = Returns(WellFormedCidr(Val(gen.cidr)))
        /\ cidr_str = "10.0.0.0/16" => Val(cidr_ret) = Returns(TRUE)
        /\ cidr_str \in {"10.0.0.0/33", "10.0.0.0", "10.0.0.0/16/8"}
              => Val(cidr_ret) = Returns(FALSE)

\* the call on 10.0.0.0/16 has returned true
C10_Witness ==
    /\ tool = "validate_cidr"
    /\ pc = "returned"
    /\ cidr_str = "10.0.0.0/16"
    /\ cidr_ret = Some(Returns(TRUE))

---------------------------------------------------------------------------
(* Properties of the usage check of the module validator                   *)

UsageChecked ==
    tool = "module_validator"
    /\ pc \notin {"validate_file_structure", "validate_terraform_syntax",
                  "validate_variables"}

\* the name after "var." that a line of the written main.tf mentions
MentionOf(u) == IF Ch(u, 1) = "#" THEN From(u, 2) ELSE u

\* the written main.tf has the text var.<name>: one of its lines mentions a
\* name that begins with <name>
Mentioned(name) ==
    \E k \in 1..Len(Val(gen.main)) : StartsWith(MentionOf(Val(gen.main)[k]), name)

UsedInfos(name) ==
    {k \in 1..Len(info) : info[k].msg = "is used in main.tf" /\ info[k].variable = name}

UnusedWarnings(name) ==
    {k \in 1..Len(warnings) : warnings[k].msg = "is defined but not used"
                              /\ warnings[k].variable = name}

\* the findings of any level that are about a variable
VariableFindings(list) == {k \in 1..Len(list) : "variable" \in DOMAIN list[k]}

\* C11: once validate_variables has run on a directory with variables.tf and
\* main.tf, every declared variable has exactly one usage finding: one info
\* when main.tf has the text var.<name>, one "defined but not used" warning
\* otherwise, whatever type, default or validation block the variable has;
\* no other variable has a finding and no error is about a variable.  Without
\* one of the two files there is no usage finding.
C11_OneUsageFindingPerVariable ==
    UsageChecked =>
        /\ VariableFindings(errors) = {}
        /\ IF IsSome(gen.main) /\ IsSome(gen.variables)
           THEN /\ \A n \in 1..Len(Val(gen.variables)) :
                      LET name == Val(gen.variables)[n].name
                      IN  IF Mentioned(name)
                          THEN Cardinality(UsedInfos(name)) = 1 /\ UnusedWarnings(name) = {}
                          ELSE UsedInfos(name) = {} /\ Cardinality(UnusedWarnings(name)) = 1
                /\ Cardinality(VariableFindings(info)) + Cardinality(VariableFindings(warnings))
                       = Len(Val(gen.variables))
           ELSE VariableFindings(info) = {} /\ VariableFindings(warnings) = {}

\* "environment", without type, default and validation block, is found used
\* in a main.tf that mentions it, and "region", with all three, is found
\* unused there
C11_Witness ==
    /\ UsageChecked
    /\ gen.main = Some(<< "environment" >>)
    /\ IsSome(gen.variables)
    /\ Len(Val(gen.variables)) = 2
    /\ Cardinality(UsedInfos("environment")) = 1
    /\ Cardinality(UnusedWarnings("region")) = 1

---------------------------------------------------------------------------
(* Properties of the loading of the input files                            *)

\* the directory d with an empty file for each of the files F
WithEmptyFiles(d, F) ==
    LET e == [f \in DOMAIN d |-> IF f \in F THEN Some("") ELSE d[f]]
    IN  [e EXCEPT !.listing = SortedListing(e)]

\* the input files of the tool that the directory does not have
MissingInputs(files) == {f \in files : ~Exists(dir, f)}

\* the comparisons the simulator has printed
PrintedTests == SelectSeq(out, LAMBDA l : l.line = "test")

\* C12: a run of the output verifier or of the simulator on a directory
\* without some of its input files (main.tf, outputs.tf; variables.tf) ends
\* normally, with findings and a result that are those of a run on the same
\* directory with empty files in their place.
C12_MissingAsEmpty ==
    /\ (tool = "output_verifier" /\ pc = "done") =>
          \A F \in SUBSET MissingInputs({"main", "outputs"}) :
              /\ [errors |-> errors, warnings |-> warnings, info |-> info,
                  result |-> exit_status = 0] \in run_verification(WithEmptyFiles(dir, F))
              /\ run_verification(WithEmptyFiles(dir, F)) = run_verification(dir)
    /\ TesterDone =>
          \A F \in SUBSET MissingInputs({"variables"}) :
              /\ exit_status \in {0, 1}
              /\ [tests |-> PrintedTests, result |-> exit_status = 0]
                     = test_variable_combinations(WithEmptyFiles(dir, F))

\* a finished run of the verifier on a directory without main.tf, whose
\* outputs.tf has a reference that is then invalid
C12_Witness ==
    /\ tool = "output_verifier"
    /\ pc = "done"
    /\ ~Exists(dir, "main")
    /\ Exists(dir, "outputs")
    /\ \E k \in 1..Len(errors) : errors[k].msg = "references invalid resource"
    /\ exit_status = 1

---------------------------------------------------------------------------
(* Properties of the two output checks on one outputs.tf                   *)

NoFindings == Findings(<< >>, << >>, << >>)

\* the outputs the findings have a "missing value" error for
MissingValueIn(errs) ==
    {errs[k].output : k \in {j \in 1..Len(errs) : errs[j].msg = "missing value"}}

\* the outputs the findings have a "has value" info for
HasValueIn(infos) ==
    {infos[k].output : k \in {j \in 1..Len(infos) : infos[j].msg = "has value"}}

\* what validate_outputs of the module validator finds in the directory d
ValidatorFinds(d) == validate_outputs(NoFindings, d)

ValidatorExtracts(d) ==
    MissingValueIn(ValidatorFinds(d).errors) \cup HasValueIn(ValidatorFinds(d).info)

\* what verify_output_references of the output verifier finds in d
VerifierExtracts(d) == {load_outputs(d)[k].name : k \in 1..Len(load_outputs(d))}

VerifierMissing(d) == UNION {MissingValueIn(a.errors) : a \in run_verification(d)}

\* the module validator is past validate_outputs
OutputsValidated ==
    /\ tool = "module_validator"
    /\ pc \in {"validate_variable_constraints", "validate_naming_conventions",
               "summary", "done"}

\* C19: on one outputs.tf, for every output that both tools extract, the
\* run of one tool has recorded a "missing value" error for it exactly when
\* the other tool records one: the verifier's run against validate_outputs,
\* and the validator's run against verify_output_references.
C19_SameMissingValues ==
    /\ ReferencesVerified =>
          \A n \in VerifierExtracts(dir) \cap ValidatorExtracts(dir) :
              n \in MissingValueIn(errors) <=> n \in MissingValueIn(ValidatorFinds(dir).errors)
    /\ OutputsValidated =>
          \A n \in VerifierExtracts(dir) \cap ValidatorExtracts(dir) :
              n \in MissingValueIn(errors) <=> n \in VerifierMissing(dir)

---------------------------------------------------------------------------
(* Properties of the extraction of the output blocks                       *)

\* C15: once the references are verified, an output written with one nested
\* block followed by a value attribute has its value found: one "has value"
\* info and no "missing value" error.
C15_ValueAfterNestedBlock ==
    ReferencesVerified =>
        \A n \in 1..Len(WrittenOutputs) :
            LET o == WrittenOutputs[n]
            IN  (o.nested = "before" /\ IsSome(o.value)) =>
                    /\ ErrorsOf(o.name, "missing value") = {}
                    /\ Cardinality(InfosOf(o.name, "has value")) = 1

=============================================================================
